---- MODULE Spec2Model ----
(***************************************************************************)
(* Workflow execution engine and cron scheduler of the Depo repository.    *)
(*                                                                         *)
(* Two code paths run a stored workflow graph:                             *)
(*   - the scheduler  (WorkflowScheduler, lib/scheduler)                   *)
(*   - the run-now endpoint (POST /api/workflows/[id]/execute)             *)
(* Both create an Execution record, walk the graph from the trigger node   *)
(* and persist a terminal status.  Every `await` of the source is a step   *)
(* boundary of the model; code between two awaits is one atomic step.      *)
(*                                                                         *)
(* Optional values (undefined / null in the source) are sequences of       *)
(* length 0 or 1.  Timestamps are not modelled except for the presence of  *)
(* completedAt.                                                            *)
(***************************************************************************)
EXTENDS Integers, Sequences, FiniteSets, TLC

\* ---------------------------------------------------------------- bounds
\* cron tasks created plus timer fires and run-now requests started in a behaviour
MaxEvents == 3

\* direct calls of the engine's functions in a behaviour
MaxCalls == 2

\* ------------------------------------------------------- optional values
None == <<>>
Some(x) == <<x>>
IsSome(o) == Len(o) = 1
Get(o) == o[1]

\* ------------------------------------------------------------ workflows
WorkflowIds == {"w1", "w2"}

\* config?.delayMs, config?.to, config?.url, config?.channel, config?.message
NoConfig == [delayMs |-> None, to |-> None, url |-> None, channel |-> None, message |-> None]

Node(id, type, config) == [nodeId |-> id, type |-> type, title |-> id, config |-> config]
Edge(s, t) == [sourceId |-> s, targetId |-> t]

\* trigger(T1) -> action(A1) -> [slack(M1), delay(D1)]
GraphScenario ==
  [nodes |-> << Node("T1", "trigger", NoConfig), Node("A1", "action", NoConfig),
               Node("M1", "slack", NoConfig),
               Node("D1", "delay", [NoConfig EXCEPT !.delayMs = Some(100)]) >>,
   edges |-> << Edge("T1", "A1"), Edge("A1", "M1"), Edge("A1", "D1") >>]

\* trigger(T1) -> [email(B), webhook(C)], children declared B then C
GraphOrder ==
  [nodes |-> << Node("T1", "trigger", NoConfig), Node("C", "webhook", NoConfig),
               Node("B", "email", NoConfig) >>,
   edges |-> << Edge("T1", "B"), Edge("T1", "C") >>]

\* two parallel edges T1 -> A1
GraphDuplicate ==
  [nodes |-> << Node("T1", "trigger", NoConfig), Node("A1", "action", NoConfig) >>,
   edges |-> << Edge("T1", "A1"), Edge("T1", "A1") >>]

\* trigger(T1) -> database(DB1)
GraphDatabase ==
  [nodes |-> << Node("T1", "trigger", NoConfig), Node("DB1", "database", NoConfig) >>,
   edges |-> << Edge("T1", "DB1") >>]

\* no node of type trigger
GraphNoTrigger ==
  [nodes |-> << Node("A1", "action", NoConfig), Node("K1", "condition", NoConfig) >>,
   edges |-> << Edge("A1", "K1") >>]

\* edge cycle T1 -> A1 -> T1, a second trigger, an edge from an unknown source
GraphCycle ==
  [nodes |-> << Node("X1", "spreadsheet", NoConfig), Node("T1", "trigger", NoConfig),
               Node("A1", "action", NoConfig), Node("T2", "trigger", NoConfig) >>,
   edges |-> << Edge("T1", "A1"), Edge("A1", "T1"), Edge("ghost", "A1") >>]

\* a lone trigger
GraphSingle ==
  [nodes |-> << Node("T1", "trigger", NoConfig) >>, edges |-> << >>]

\* ------------------------------------------------------ cron expressions
\* A cron expression is the sequence of its whitespace-separated fields.
Star == -1    \* the field "*"
Word == -2    \* a field that is neither "*" nor a number
EveryMinute == <<Star, Star, Star, Star, Star>>
MondayNine == <<0, 9, Star, Star, 1>>
NotACron == <<Word>>
CronPool == {EveryMinute, MondayNine, NotACron}

\* cron.validate of node-cron: five fields (six with leading seconds),
\* each "*" or a number within the range of its position.
FieldRanges == << <<0, 59>>, <<0, 59>>, <<0, 23>>, <<1, 31>>, <<1, 12>>, <<0, 7>> >>
validate(schedule) ==
  /\ Len(schedule) \in {5, 6}
  /\ \A i \in 1..Len(schedule) :
        LET r == FieldRanges[i + (6 - Len(schedule))]
        IN  schedule[i] = Star \/ (schedule[i] >= r[1] /\ schedule[i] <= r[2])

\* ------------------------------------------------------- execution engine
Ok(v) == [ok |-> TRUE, value |-> v]
Throw(msg) == [ok |-> FALSE, error |-> msg]

NoTriggerMessage == "No trigger node found in workflow"
HandlerMessage == "dependency unreachable"

\* the environment of a run: the node types whose handler is made to throw
\* (none does in the repository as shipped) and the Slack notifier
EnvFaulty == [faults |-> {"database"}, slack |-> "unconfigured"]
EnvSlack == [faults |-> {}, slack |-> "ok"]

\* values of Math.random() that a handler draws
RandPool == { [flag |-> FALSE, records |-> 0], [flag |-> TRUE, records |-> 99] }

OrElse(o, d) == IF IsSome(o) THEN Get(o) ELSE d

\* `x || d` on a number: 0 is falsy
OrElseTruthy(o, d) == IF IsSome(o) /\ Get(o) # 0 THEN Get(o) ELSE d

executeAction(node, context) == [action |-> node.title, executed |-> TRUE]

executeCondition(node, context, rand) == [condition |-> node.title, result |-> rand.flag]

executeDelay(node, context) ==
  [delay |-> node.title, delayed |-> TRUE, duration |-> OrElseTruthy(node.config.delayMs, 2000)]

executeEmail(node, context) ==
  [email |-> node.title, sent |-> TRUE, to |-> OrElse(node.config.to, "unknown@example.com")]

executeDatabase(node, context, rand) ==
  [database |-> node.title, operation |-> "SELECT", records |-> rand.records]

executeWebhook(node, context) ==
  [webhook |-> node.title, url |-> OrElse(node.config.url, "https://example.com/webhook"),
   status |-> 200]

isConfigured(env) == env.slack # "unconfigured"

\* client.chat.postMessage of the Slack WebClient: it answers ok, answers with
\* an error, or throws
postMessage(env) ==
  IF env.slack = "ok" THEN Ok([ok |-> TRUE, error |-> None])
  ELSE IF env.slack = "notok" THEN Ok([ok |-> FALSE, error |-> Some("channel_not_found")])
  ELSE Throw("request failed")

\* SlackService.sendMessage: it catches the client's errors itself and always
\* returns {success, error}
sendMessage(env) ==
  IF ~isConfigured(env) THEN Ok([success |-> FALSE, error |-> "Slack not configured"])
  ELSE LET result == postMessage(env)
       IN  IF ~result.ok THEN Ok([success |-> FALSE, error |-> result.error])
           ELSE IF result.value.ok THEN Ok([success |-> TRUE, error |-> ""])
           ELSE Ok([success |-> FALSE, error |-> OrElse(result.value.error, "Unknown error")])

\* mutant: the message is posted with the client directly, outside any try/catch
executeSlackUncaught(node, context, env) ==
  LET channel == OrElse(node.config.channel, "#general")
      message == OrElse(node.config.message, <<"Workflow executed: ", node.title>>)
  IN  IF isConfigured(env)
      THEN LET result == postMessage(env)
           IN  IF ~result.ok THEN result
               ELSE Ok([slack |-> node.title, sent |-> TRUE, channel |-> channel,
                        message |-> message, realMessage |-> result.value.ok])
      ELSE Ok([slack |-> node.title, sent |-> TRUE, channel |-> channel, message |-> message,
               simulated |-> TRUE])

\* executeSlack of the run-now route: with a notifier configured the send is
\* inside try/catch, without one the send is simulated
executeSlack(node, context, env) ==
  LET channel == OrElse(node.config.channel, "#general")
      message == OrElse(node.config.message, <<"Workflow executed: ", node.title>>)
  IN  IF isConfigured(env)
      THEN LET result == sendMessage(env)
           IN  IF result.ok
               THEN Ok([slack |-> node.title, sent |-> TRUE, channel |-> channel,
                        message |-> message, realMessage |-> result.value.success])
               ELSE Ok([slack |-> node.title, sent |-> FALSE, channel |-> channel,
                        message |-> message, error |-> result.error])
      ELSE Ok([slack |-> node.title, sent |-> TRUE, channel |-> channel, message |-> message,
               simulated |-> TRUE])

\* nodes.find(node => node.nodeId === nodeId)
getNodeById(nodeId, nodes) ==
  LET hits == { i \in 1..Len(nodes) : nodes[i].nodeId = nodeId }
  IN  IF hits = {} THEN None
      ELSE Some(nodes[CHOOSE i \in hits : \A j \in hits : i <= j])

\* mutant: without a trigger node the first node is the entry point
findTriggerOrFirst(nodes) ==
  LET hits == { i \in 1..Len(nodes) : nodes[i].type = "trigger" }
  IN  IF hits = {} THEN (IF nodes = <<>> THEN None ELSE Some(nodes[1]))
      ELSE Some(nodes[CHOOSE i \in hits : \A j \in hits : i <= j])

\* mutant: the last trigger node in stored order is the entry point
findTriggerLast(nodes) ==
  LET hits == { i \in 1..Len(nodes) : nodes[i].type = "trigger" }
  IN  IF hits = {} THEN None
      ELSE Some(nodes[CHOOSE i \in hits : \A j \in hits : i >= j])

\* workflow.nodes.find(node => node.type === 'trigger')
findTrigger(nodes) ==
  LET hits == { i \in 1..Len(nodes) : nodes[i].type = "trigger" }
  IN  IF hits = {} THEN None
      ELSE Some(nodes[CHOOSE i \in hits : \A j \in hits : i <= j])

RECURSIVE targetsOf(_, _)
targetsOf(edges, id) ==
  IF edges = <<>> THEN <<>>
  ELSE IF Head(edges).sourceId = id
       THEN <<Head(edges).targetId>> \o targetsOf(Tail(edges), id)
       ELSE targetsOf(Tail(edges), id)

\* graph[nodeId] = [] for every node, then each edge whose source is a key is
\* pushed in declaration order: the graph that is returned when no push fails
buildExecutionGraph(nodes, edges) ==
  [id \in { nodes[i].nodeId : i \in 1..Len(nodes) } |-> targetsOf(edges, id)]

\* names that graph = {} answers without having them as a key of its own:
\* members of Object.prototype
PrototypeKeys == {"constructor", "toString", "__proto__"}

\* the TypeError of calling push on a value that has none
PushMessage == "graph[edge.sourceId].push is not a function"

\* graph[edge.sourceId] is truthy and is not one of the arrays: the source is
\* no node id and names a member of Object.prototype
pushFails(nodes, edges) ==
  \E e \in 1..Len(edges) :
     /\ edges[e].sourceId \notin { nodes[i].nodeId : i \in 1..Len(nodes) }
     /\ edges[e].sourceId \in PrototypeKeys

\* a call of buildExecutionGraph: the graph, or the error thrown by the push
buildGraph(nodes, edges) ==
  IF pushFails(nodes, edges) THEN Throw(PushMessage)
  ELSE Ok(buildExecutionGraph(nodes, edges))

\* the second argument of getNodeById at the call in executeNode:
\* Object.values(graph).length > 0 ? [] : []
lookupNodes(graph) == IF Cardinality(DOMAIN graph) > 0 THEN <<>> ELSE <<>>

\* mutant: a node type without a case raises an error
dispatchStrict(node, context, env, rand) ==
  IF node.type = "trigger" THEN Ok([triggered |-> TRUE])
  ELSE IF node.type \in env.faults THEN Throw(HandlerMessage)
  ELSE IF node.type = "action" THEN Ok(executeAction(node, context))
  ELSE IF node.type = "condition" THEN Ok(executeCondition(node, context, rand))
  ELSE IF node.type = "delay" THEN Ok(executeDelay(node, context))
  ELSE IF node.type = "email" THEN Ok(executeEmail(node, context))
  ELSE IF node.type = "database" THEN Ok(executeDatabase(node, context, rand))
  ELSE IF node.type = "webhook" THEN Ok(executeWebhook(node, context))
  ELSE Throw("Unknown node type")

\* the switch of WorkflowScheduler.executeNode (no 'slack' case)
dispatch(node, context, env, rand) ==
  IF node.type = "trigger" THEN Ok([triggered |-> TRUE])
  ELSE IF node.type \in env.faults THEN Throw(HandlerMessage)
  ELSE IF node.type = "action" THEN Ok(executeAction(node, context))
  ELSE IF node.type = "condition" THEN Ok(executeCondition(node, context, rand))
  ELSE IF node.type = "delay" THEN Ok(executeDelay(node, context))
  ELSE IF node.type = "email" THEN Ok(executeEmail(node, context))
  ELSE IF node.type = "database" THEN Ok(executeDatabase(node, context, rand))
  ELSE IF node.type = "webhook" THEN Ok(executeWebhook(node, context))
  ELSE Ok([executed |-> TRUE, type |-> node.type])

\* the switch of executeNode of the run-now route
dispatchRoute(node, context, env, rand) ==
  IF node.type = "slack" /\ ~(node.type \in env.faults)
  THEN executeSlack(node, context, env)
  ELSE dispatch(node, context, env, rand)

\* mutant: on a key collision the parent's context wins over its result
childContextKeep(context, result) == context @@ result

\* { ...context, ...result }: the context executeNode passes to a child
childContext(context, result) == result @@ context

RECURSIVE executeNode(_, _, _, _, _, _), executeChildren(_, _, _, _, _, _, _, _)
\* the for loop over graph[node.nodeId]: sequential, a throw of a child ends it
executeChildren(childNodes, i, childResults, graph, context, env, rand, route) ==
  IF i > Len(childNodes) THEN Ok(childResults)
  ELSE LET childNode == getNodeById(childNodes[i], lookupNodes(graph))
       IN  IF IsSome(childNode)
           THEN LET childResult == executeNode(Get(childNode), graph, context, env, rand, route)
                IN  IF childResult.ok
                    THEN executeChildren(childNodes, i + 1,
                                         Append(childResults, childResult.value),
                                         graph, context, env, rand, route)
                    ELSE childResult
           ELSE executeChildren(childNodes, i + 1, childResults, graph, context, env, rand,
                                route)

\* route = TRUE is executeNode of the run-now route, FALSE that of the scheduler
executeNode(node, graph, context, env, rand, route) ==
  LET result == IF route = TRUE THEN dispatchRoute(node, context, env, rand)
                ELSE dispatch(node, context, env, rand)
  IN  IF ~result.ok THEN result
      ELSE LET childNodes == IF node.nodeId \in DOMAIN graph THEN graph[node.nodeId] ELSE <<>>
               children == executeChildren(childNodes, 1, <<>>, graph,
                                           childContext(context, result.value), env, rand,
                                           route)
           IN  IF children.ok
               THEN Ok(("children" :> children.value) @@ result.value)
               ELSE children

\* runWorkflow up to the db.execution.update it issues: the `data` argument.
\* `set` names the keys that are present in data besides status
runWorkflow(workflow, env, rand) ==
  LET triggerNode == findTrigger(workflow.nodes)
  IN  IF ~IsSome(triggerNode)
      THEN [status |-> "failed", set |-> {"error", "completedAt"},
            output |-> None, error |-> Some(NoTriggerMessage)]
      ELSE LET built == buildGraph(workflow.nodes, workflow.edges)
               result == IF built.ok
                         THEN executeNode(Get(triggerNode), built.value, <<>>, env, rand, FALSE)
                         ELSE built
           IN  IF result.ok
               THEN [status |-> "completed", set |-> {"output", "completedAt"},
                     output |-> Some(result.value), error |-> None]
               ELSE [status |-> "failed", set |-> {"error", "completedAt"},
                     output |-> None, error |-> Some(result.error)]

\* mutant: completedAt is never passed
updateExecutionStatusNoCompletedAt(status, error, output, outputGiven) ==
  [status |-> status,
   set |-> {"error"} \cup (IF outputGiven THEN {"output"} ELSE {}),
   output |-> output, error |-> error]

\* updateExecutionStatus(executionId, status, error, output): the data it passes
updateExecutionStatus(status, error, output, outputGiven) ==
  [status |-> status,
   set |-> {"error"} \cup (IF outputGiven THEN {"output"} ELSE {})
                     \cup (IF status # "running" THEN {"completedAt"} ELSE {}),
   output |-> output, error |-> error]

\* executeWorkflow of the run-now route up to the update it issues
executeWorkflow(workflow, env, rand) ==
  LET triggerNode == findTrigger(workflow.nodes)
  IN  IF ~IsSome(triggerNode)
      THEN updateExecutionStatus("failed", Some(NoTriggerMessage), None, FALSE)
      ELSE LET built == buildGraph(workflow.nodes, workflow.edges)
               result == IF built.ok
                         THEN executeNode(Get(triggerNode), built.value, <<>>, env, rand, TRUE)
                         ELSE built
           IN  IF result.ok
               THEN updateExecutionStatus("completed", None, Some(result.value), TRUE)
               ELSE updateExecutionStatus("failed", Some(result.error), None, FALSE)

\* mutant: every record gets the same id
nextExecutionIdSame(execs) == 1

\* the id the store gives a new Execution record
nextExecutionId(execs) == Len(execs) + 1

\* db.execution.create({data: {workflowId, status: 'running', input}})
newExecution(workflowId, input) ==
  [workflowId |-> workflowId, status |-> "running", input |-> input,
   output |-> None, error |-> None, completedAt |-> None]

\* mutant: the update does not write status
applyUpdateKeepStatus(execution, data) ==
  [execution EXCEPT
     !.output = IF "output" \in data.set THEN data.output ELSE @,
     !.error = IF "error" \in data.set THEN data.error ELSE @,
     !.completedAt = IF "completedAt" \in data.set THEN Some("now") ELSE @]

\* db.execution.update({where: {id}, data}): keys absent from data are kept
applyUpdate(execution, data) ==
  [execution EXCEPT
     !.status = data.status,
     !.output = IF "output" \in data.set THEN data.output ELSE @,
     !.error = IF "error" \in data.set THEN data.error ELSE @,
     !.completedAt = IF "completedAt" \in data.set THEN Some("now") ELSE @]

\* ------------------------------------------------------------------ state
VARIABLES
  workflows,           \* the workflow store: id -> stored workflow
  executions,          \* the execution store: id (index) -> Execution record
  scheduledWorkflows,  \* WorkflowScheduler.scheduledWorkflows: id -> binding
  tasks,               \* the cron tasks created so far: index -> task
  runs,                \* timer callbacks and run-now requests started so far
  env,                 \* handler faults and Slack notifier of this behaviour
  lastCall             \* the latest call of a scheduler method and the error it threw

vars == <<workflows, executions, scheduledWorkflows, tasks, runs, env, lastCall>>

Workflow(active, graph) ==
  [exists |-> TRUE, isActive |-> active, schedule |-> None,
   nodes |-> graph.nodes, edges |-> graph.edges]


Call(op, workflowId, error) == [op |-> op, workflowId |-> workflowId, error |-> error]

\* the stores and environments a behaviour starts from: the graph of w1, the
\* environment, and whether w2 (a lone trigger) is active
Worlds ==
  { <<GraphScenario, EnvFaulty, TRUE>>, <<GraphOrder, EnvSlack, FALSE>>,
    <<GraphDuplicate, EnvSlack, FALSE>>, <<GraphDatabase, EnvFaulty, TRUE>>,
    <<GraphNoTrigger, EnvSlack, TRUE>>, <<GraphCycle, EnvFaulty, TRUE>> }

\* the worlds the scheduler is constructed in
StartWorlds == { <<GraphScenario, EnvFaulty, FALSE>>, <<GraphNoTrigger, EnvSlack, TRUE>> }

Init ==
  /\ \E w \in StartWorlds :
        /\ workflows = [id \in WorkflowIds |->
                          IF id = "w1" THEN Workflow(TRUE, w[1])
                          ELSE Workflow(w[3], GraphSingle)]
        /\ env = w[2]
  /\ executions = <<>>
  /\ scheduledWorkflows = <<>>
  /\ tasks = <<>>
  /\ runs = <<>>
  /\ lastCall = Call("none", "", None)

\* ------------------------------------------------------------- scheduler
InvalidCron(schedule) == [message |-> "Invalid cron expression", schedule |-> schedule]

\* mutant: the whole map is cleared
deleteBindingClear(map, workflowId) == <<>>

\* the map without the binding of workflowId
deleteBinding(map, workflowId) == [id \in DOMAIN map \ {workflowId} |-> map[id]]

\* task.stop() of every task in the set
stopTasks(ts, stopped) == [t \in DOMAIN ts |-> IF t \in stopped THEN [ts[t] EXCEPT !.running = FALSE]
                                              ELSE ts[t]]

\* mutant: the binding is removed but its task is not stopped
unscheduledNoStop(map, ts, workflowId) ==
  IF workflowId \in DOMAIN map THEN <<deleteBinding(map, workflowId), ts>> ELSE <<map, ts>>

\* the effect of unscheduleWorkflow on <<scheduledWorkflows, tasks>>
unscheduled(map, ts, workflowId) ==
  IF workflowId \in DOMAIN map
  THEN <<deleteBinding(map, workflowId), stopTasks(ts, {map[workflowId].task})>>
  ELSE <<map, ts>>

\* mutant: the existing schedule is removed before the expression is validated
scheduleWorkflowUnscheduleFirst(workflowId, schedule) ==
  /\ LET u == unscheduled(scheduledWorkflows, tasks, workflowId)
     IN  IF ~validate(schedule)
         THEN /\ lastCall' = Call("scheduleWorkflow", workflowId, Some(InvalidCron(schedule)))
              /\ scheduledWorkflows' = u[1]
              /\ tasks' = u[2]
         ELSE /\ Len(tasks) + Len(runs) < MaxEvents
              /\ tasks' = Append(u[2], [workflowId |-> workflowId, schedule |-> schedule,
                                        running |-> TRUE])
              /\ scheduledWorkflows' =
                   (workflowId :> [id |-> workflowId, workflowId |-> workflowId,
                                   schedule |-> schedule, task |-> Len(tasks) + 1]) @@ u[1]
              /\ lastCall' = Call("scheduleWorkflow", workflowId, None)
  /\ UNCHANGED <<workflows, executions, runs, env>>

scheduleWorkflow(workflowId, schedule) ==
  /\ IF ~validate(schedule)
     THEN /\ lastCall' = Call("scheduleWorkflow", workflowId, Some(InvalidCron(schedule)))
          /\ UNCHANGED <<scheduledWorkflows, tasks>>
     ELSE /\ Len(tasks) + Len(runs) < MaxEvents
          /\ LET u == unscheduled(scheduledWorkflows, tasks, workflowId)
                 task == Len(tasks) + 1
             IN  /\ tasks' = Append(u[2], [workflowId |-> workflowId, schedule |-> schedule,
                                           running |-> TRUE])
                 /\ scheduledWorkflows' =
                      (workflowId :> [id |-> workflowId, workflowId |-> workflowId,
                                      schedule |-> schedule, task |-> task]) @@ u[1]
          /\ lastCall' = Call("scheduleWorkflow", workflowId, None)
  /\ UNCHANGED <<workflows, executions, runs, env>>

\* mutant: unscheduling a workflow also abandons its runs in progress
unscheduleWorkflowCancelling(workflowId) ==
  /\ LET u == unscheduled(scheduledWorkflows, tasks, workflowId)
     IN  /\ scheduledWorkflows' = u[1]
         /\ tasks' = u[2]
  /\ lastCall' = Call("unscheduleWorkflow", workflowId, None)
  /\ runs' = [r \in DOMAIN runs |->
                IF runs[r].workflowId = workflowId /\ runs[r].pc \in {"create", "update"}
                THEN [runs[r] EXCEPT !.pc = "cancelled"] ELSE runs[r]]
  /\ UNCHANGED <<workflows, executions, env>>

unscheduleWorkflow(workflowId) ==
  /\ LET u == unscheduled(scheduledWorkflows, tasks, workflowId)
     IN  /\ scheduledWorkflows' = u[1]
         /\ tasks' = u[2]
  /\ lastCall' = Call("unscheduleWorkflow", workflowId, None)
  /\ UNCHANGED <<workflows, executions, runs, env>>

\* mutant: the map is cleared without stopping the tasks
shutdownStateNoStop(map, ts) == << <<>>, ts >>

\* the effect of shutdown on <<scheduledWorkflows, tasks>>
shutdownState(map, ts) == << <<>>, stopTasks(ts, { map[id].task : id \in DOMAIN map }) >>

shutdown ==
  /\ LET u == shutdownState(scheduledWorkflows, tasks)
     IN  /\ scheduledWorkflows' = u[1]
         /\ tasks' = u[2]
  /\ lastCall' = Call("shutdown", "", None)
  /\ UNCHANGED <<workflows, executions, runs, env>>

\* ------------------------------------------------------------------ runs
\* A run is one invocation of executeScheduledWorkflow (path "scheduler") or
\* of the POST handler of the run-now route (path "route").  pc names the
\* await it is suspended at.
newRun(path, workflowId, task) ==
  [path |-> path, workflowId |-> workflowId, task |-> task, pc |-> "findUnique",
   workflow |-> None, executionId |-> 0, data |-> None, response |-> 0]

setRun(r, run) == [runs EXCEPT ![r] = run]

\* db.workflow.findUnique({where: {id}, include: {nodes, edges}})
findUnique(workflowId) ==
  IF workflowId \in DOMAIN workflows /\ workflows[workflowId].exists
  THEN Some(workflows[workflowId]) ELSE None

\* a running cron task fires: its callback calls executeScheduledWorkflow
TimerFire(t) ==
  /\ tasks[t].running
  /\ Len(tasks) + Len(runs) < MaxEvents
  /\ runs' = Append(runs, newRun("scheduler", tasks[t].workflowId, t))
  /\ UNCHANGED <<workflows, executions, scheduledWorkflows, tasks, env, lastCall>>

\* mutant: only a missing workflow is skipped, an inactive one is run
ScheduledFindUniqueNoActiveCheck(r) ==
  /\ r \in DOMAIN runs
  /\ runs[r].path = "scheduler" /\ runs[r].pc = "findUnique"
  /\ LET workflow == findUnique(runs[r].workflowId)
     IN  IF ~IsSome(workflow)
         THEN runs' = setRun(r, [runs[r] EXCEPT !.pc = "skipped"])
         ELSE runs' = setRun(r, [runs[r] EXCEPT !.pc = "create", !.workflow = workflow])
  /\ UNCHANGED <<workflows, executions, scheduledWorkflows, tasks, env, lastCall>>

\* executeScheduledWorkflow: findUnique resolves, the active check, create is issued
ScheduledFindUnique(r) ==
  /\ r \in DOMAIN runs
  /\ runs[r].path = "scheduler" /\ runs[r].pc = "findUnique"
  /\ LET workflow == findUnique(runs[r].workflowId)
     IN  IF ~IsSome(workflow) \/ ~Get(workflow).isActive
         THEN runs' = setRun(r, [runs[r] EXCEPT !.pc = "skipped"])
         ELSE runs' = setRun(r, [runs[r] EXCEPT !.pc = "create", !.workflow = workflow])
  /\ UNCHANGED <<workflows, executions, scheduledWorkflows, tasks, env, lastCall>>

\* mutant: runWorkflow is given the workflow as the store holds it when the
\* record has been created instead of the one loaded by findUnique
ScheduledCreateReload(r) ==
  /\ r \in DOMAIN runs
  /\ runs[r].path = "scheduler" /\ runs[r].pc = "create"
  /\ executions' = Append(executions, newExecution(runs[r].workflowId, "scheduler"))
  /\ \E rand \in RandPool :
        runs' = setRun(r, [runs[r] EXCEPT
                             !.pc = "update", !.executionId = nextExecutionId(executions),
                             !.data = Some(runWorkflow(workflows[runs[r].workflowId], env, rand))])
  /\ UNCHANGED <<workflows, scheduledWorkflows, tasks, env, lastCall>>

\* mutant: the record is created a second time when runWorkflow starts
ScheduledCreateTwice(r) ==
  /\ r \in DOMAIN runs
  /\ runs[r].path = "scheduler" /\ runs[r].pc = "create"
  /\ executions' = executions \o << newExecution(runs[r].workflowId, "scheduler"),
                                     newExecution(runs[r].workflowId, "scheduler") >>
  /\ \E rand \in RandPool :
        runs' = setRun(r, [runs[r] EXCEPT
                             !.pc = "update", !.executionId = nextExecutionId(executions),
                             !.data = Some(runWorkflow(Get(runs[r].workflow), env, rand))])
  /\ UNCHANGED <<workflows, scheduledWorkflows, tasks, env, lastCall>>

\* executeScheduledWorkflow: create resolves, runWorkflow runs to its update
ScheduledCreate(r) ==
  /\ r \in DOMAIN runs
  /\ runs[r].path = "scheduler" /\ runs[r].pc = "create"
  /\ executions' = Append(executions, newExecution(runs[r].workflowId, "scheduler"))
  /\ \E rand \in RandPool :
        runs' = setRun(r, [runs[r] EXCEPT
                             !.pc = "update", !.executionId = nextExecutionId(executions),
                             !.data = Some(runWorkflow(Get(runs[r].workflow), env, rand))])
  /\ UNCHANGED <<workflows, scheduledWorkflows, tasks, env, lastCall>>

\* runWorkflow: db.execution.update resolves
ScheduledUpdate(r) ==
  /\ r \in DOMAIN runs
  /\ runs[r].path = "scheduler" /\ runs[r].pc = "update"
  /\ executions' = [executions EXCEPT
                      ![runs[r].executionId] = applyUpdate(@, Get(runs[r].data))]
  /\ runs' = setRun(r, [runs[r] EXCEPT !.pc = "done"])
  /\ UNCHANGED <<workflows, scheduledWorkflows, tasks, env, lastCall>>

\* POST /api/workflows/[id]/execute is received
PostExecute(workflowId) ==
  /\ Len(tasks) + Len(runs) < MaxEvents
  /\ runs' = Append(runs, newRun("route", workflowId, 0))
  /\ UNCHANGED <<workflows, executions, scheduledWorkflows, tasks, env, lastCall>>

\* mutant: the POST handler answers 404 for a missing workflow and runs an
\* inactive one
RouteFindUniqueNoActiveCheck(r) ==
  /\ r \in DOMAIN runs
  /\ runs[r].path = "route" /\ runs[r].pc = "findUnique"
  /\ LET workflow == findUnique(runs[r].workflowId)
     IN  IF ~IsSome(workflow)
         THEN runs' = setRun(r, [runs[r] EXCEPT !.pc = "rejected", !.response = 404])
         ELSE runs' = setRun(r, [runs[r] EXCEPT !.pc = "create", !.workflow = workflow])
  /\ UNCHANGED <<workflows, executions, scheduledWorkflows, tasks, env, lastCall>>

\* POST: findUnique resolves; 404, 400 or create is issued
RouteFindUnique(r) ==
  /\ r \in DOMAIN runs
  /\ runs[r].path = "route" /\ runs[r].pc = "findUnique"
  /\ LET workflow == findUnique(runs[r].workflowId)
     IN  IF ~IsSome(workflow)
         THEN runs' = setRun(r, [runs[r] EXCEPT !.pc = "rejected", !.response = 404])
         ELSE IF ~Get(workflow).isActive
         THEN runs' = setRun(r, [runs[r] EXCEPT !.pc = "rejected", !.response = 400])
         ELSE runs' = setRun(r, [runs[r] EXCEPT !.pc = "create", !.workflow = workflow])
  /\ UNCHANGED <<workflows, executions, scheduledWorkflows, tasks, env, lastCall>>

\* POST: create resolves, executeWorkflow is started in the background and runs
\* to its updateExecutionStatus, the response is returned
RouteCreate(r) ==
  /\ r \in DOMAIN runs
  /\ runs[r].path = "route" /\ runs[r].pc = "create"
  /\ executions' = Append(executions, newExecution(runs[r].workflowId, "none"))
  /\ \E rand \in RandPool :
        runs' = setRun(r, [runs[r] EXCEPT
                             !.pc = "update", !.executionId = nextExecutionId(executions),
                             !.response = 200,
                             !.data = Some(executeWorkflow(Get(runs[r].workflow), env, rand))])
  /\ UNCHANGED <<workflows, scheduledWorkflows, tasks, env, lastCall>>

\* mutant: the update is applied to the newest record instead of the run's own
RouteUpdateLatest(r) ==
  /\ r \in DOMAIN runs
  /\ runs[r].path = "route" /\ runs[r].pc = "update"
  /\ executions' = [executions EXCEPT
                      ![Len(executions)] = applyUpdate(@, Get(runs[r].data))]
  /\ runs' = setRun(r, [runs[r] EXCEPT !.pc = "done"])
  /\ UNCHANGED <<workflows, scheduledWorkflows, tasks, env, lastCall>>

\* updateExecutionStatus: db.execution.update resolves
RouteUpdate(r) ==
  /\ r \in DOMAIN runs
  /\ runs[r].path = "route" /\ runs[r].pc = "update"
  /\ executions' = [executions EXCEPT
                      ![runs[r].executionId] = applyUpdate(@, Get(runs[r].data))]
  /\ runs' = setRun(r, [runs[r] EXCEPT !.pc = "done"])
  /\ UNCHANGED <<workflows, scheduledWorkflows, tasks, env, lastCall>>

\* ---------------------------------------------------------- specification
Next ==
  \/ \E id \in WorkflowIds, schedule \in CronPool : scheduleWorkflow(id, schedule)
  \/ \E id \in WorkflowIds : unscheduleWorkflow(id)
  \/ shutdown
  \/ \E t \in DOMAIN tasks : TimerFire(t)
  \/ \E r \in DOMAIN runs : ScheduledFindUnique(r)
  \/ \E r \in DOMAIN runs : ScheduledCreate(r)
  \/ \E r \in DOMAIN runs : ScheduledUpdate(r)
  \/ \E id \in WorkflowIds : PostExecute(id)
  \/ \E r \in DOMAIN runs : RouteFindUnique(r)
  \/ \E r \in DOMAIN runs : RouteCreate(r)
  \/ \E r \in DOMAIN runs : RouteUpdate(r)

Spec == Init /\ [][Next]_vars

\* The event loop runs every continuation whose await has resolved: as long as
\* some run is suspended at an await, a step of a run is eventually taken.
RunStep ==
  \E r \in DOMAIN runs :
     \/ ScheduledFindUnique(r) \/ ScheduledCreate(r) \/ ScheduledUpdate(r)
     \/ RouteFindUnique(r) \/ RouteCreate(r) \/ RouteUpdate(r)

\* The scheduler after scheduleWorkflow("w1", EveryMinute), in each world
EngineInit ==
  /\ \E w \in Worlds :
        /\ workflows = [id \in WorkflowIds |->
                          IF id = "w1" THEN Workflow(TRUE, w[1])
                          ELSE Workflow(w[3], GraphSingle)]
        /\ env = w[2]
  /\ executions = <<>>
  /\ runs = <<>>
  /\ tasks = << [workflowId |-> "w1", schedule |-> EveryMinute, running |-> TRUE] >>
  /\ scheduledWorkflows =
       ("w1" :> [id |-> "w1", workflowId |-> "w1", schedule |-> EveryMinute, task |-> 1])
  /\ lastCall = Call("scheduleWorkflow", "w1", None)

\* timer fires, run-now requests and the steps of their runs
EngineNext ==
  \/ \E t \in DOMAIN tasks : TimerFire(t)
  \/ \E r \in DOMAIN runs : ScheduledFindUnique(r)
  \/ \E r \in DOMAIN runs : ScheduledCreate(r)
  \/ \E r \in DOMAIN runs : ScheduledUpdate(r)
  \/ \E id \in WorkflowIds : PostExecute(id)
  \/ \E r \in DOMAIN runs : RouteFindUnique(r)
  \/ \E r \in DOMAIN runs : RouteCreate(r)
  \/ \E r \in DOMAIN runs : RouteUpdate(r)

EngineSpec == EngineInit /\ [][EngineNext]_vars

LiveSpec == EngineSpec /\ WF_vars(RunStep)

\* ------------------------------------------------- workflow update, delete
\* PUT /api/workflows/[id] with body {isActive}: db.workflow.update writes the
\* flag (it throws for a missing workflow and the handler answers 500); the
\* scheduler is not called
PutWorkflow(workflowId, isActive) ==
  /\ workflows' = IF workflows[workflowId].exists
                  THEN [workflows EXCEPT ![workflowId].isActive = isActive]
                  ELSE workflows
  /\ UNCHANGED <<executions, scheduledWorkflows, tasks, runs, env, lastCall>>

\* DELETE /api/workflows/[id]: db.workflow.delete removes the workflow (it throws
\* for a missing one and the handler answers 500); the scheduler is not called
DeleteWorkflow(workflowId) ==
  /\ workflows' = IF workflows[workflowId].exists
                  THEN [workflows EXCEPT ![workflowId].exists = FALSE]
                  ELSE workflows
  /\ UNCHANGED <<executions, scheduledWorkflows, tasks, runs, env, lastCall>>

\* the worlds in which workflows are updated and deleted
StoreWorlds == { <<GraphScenario, EnvFaulty, TRUE>>, <<GraphNoTrigger, EnvSlack, FALSE>> }

\* the scheduler after scheduleWorkflow("w1", EveryMinute), w1 active
StoreInit ==
  /\ \E w \in StoreWorlds :
        /\ workflows = [id \in WorkflowIds |->
                          IF id = "w1" THEN Workflow(TRUE, w[1])
                          ELSE Workflow(w[3], GraphSingle)]
        /\ env = w[2]
  /\ executions = <<>>
  /\ runs = <<>>
  /\ tasks = << [workflowId |-> "w1", schedule |-> EveryMinute, running |-> TRUE] >>
  /\ scheduledWorkflows =
       ("w1" :> [id |-> "w1", workflowId |-> "w1", schedule |-> EveryMinute, task |-> 1])
  /\ lastCall = Call("scheduleWorkflow", "w1", None)

\* timer fires, run-now requests, the steps of their runs, and the workflow
\* update and delete requests
StoreNext ==
  \/ \E t \in DOMAIN tasks : TimerFire(t)
  \/ \E r \in DOMAIN runs : ScheduledFindUnique(r)
  \/ \E r \in DOMAIN runs : ScheduledCreate(r)
  \/ \E r \in DOMAIN runs : ScheduledUpdate(r)
  \/ \E id \in WorkflowIds : PostExecute(id)
  \/ \E r \in DOMAIN runs : RouteFindUnique(r)
  \/ \E r \in DOMAIN runs : RouteCreate(r)
  \/ \E r \in DOMAIN runs : RouteUpdate(r)
  \/ \E id \in WorkflowIds, isActive \in BOOLEAN : PutWorkflow(id, isActive)
  \/ \E id \in WorkflowIds : DeleteWorkflow(id)

StoreSpec == StoreInit /\ [][StoreNext]_vars

\* ------------------------------------------------------ store calls that throw
\* the message of the error a rejected store call carries
StoreMessage == "store unavailable"

\* mutant: runWorkflow's catch rethrows and executeScheduledWorkflow has no catch
scheduledThrowUncaught(run) ==
  IF run.pc = "update" /\ Get(run.data).status = "completed"
  THEN [run EXCEPT !.data = Some([status |-> "failed", set |-> {"error", "completedAt"},
                                  output |-> None, error |-> Some(StoreMessage)])]
  ELSE [run EXCEPT !.pc = "uncaught"]

\* executeScheduledWorkflow after the store call it awaits has thrown: the
\* update of runWorkflow's try block throws into runWorkflow's catch, which
\* issues the 'failed' update; every other throw reaches the catch of
\* executeScheduledWorkflow, which logs and returns
scheduledThrow(run) ==
  IF run.pc = "update" /\ Get(run.data).status = "completed"
  THEN [run EXCEPT !.data = Some([status |-> "failed", set |-> {"error", "completedAt"},
                                  output |-> None, error |-> Some(StoreMessage)])]
  ELSE [run EXCEPT !.pc = "caught"]

\* the run-now route after the store call it awaits has thrown: POST answers
\* 500; the update of executeWorkflow's try block throws into its catch, which
\* issues the 'failed' update; when that throws, the .catch of POST issues one
\* more 'failed' update, whose rejection nothing handles
routeThrow(run) ==
  IF run.pc \in {"findUnique", "create"}
  THEN [run EXCEPT !.pc = "rejected", !.response = 500]
  ELSE IF run.pc = "update" /\ Get(run.data).status = "completed"
  THEN [run EXCEPT !.data = Some(updateExecutionStatus("failed", Some(StoreMessage), None, FALSE))]
  ELSE IF run.pc = "update"
  THEN [run EXCEPT !.pc = "lastUpdate",
                   !.data = Some(updateExecutionStatus("failed", Some(StoreMessage), None, FALSE))]
  ELSE [run EXCEPT !.pc = "uncaught"]

\* a store call awaited by executeScheduledWorkflow or runWorkflow throws
ScheduledStoreThrows(r) ==
  /\ r \in DOMAIN runs
  /\ runs[r].path = "scheduler" /\ runs[r].pc \in {"findUnique", "create", "update"}
  /\ runs' = setRun(r, scheduledThrow(runs[r]))
  /\ UNCHANGED <<workflows, executions, scheduledWorkflows, tasks, env, lastCall>>

\* a store call awaited by POST, executeWorkflow or updateExecutionStatus throws
RouteStoreThrows(r) ==
  /\ r \in DOMAIN runs
  /\ runs[r].path = "route" /\ runs[r].pc \in {"findUnique", "create", "update", "lastUpdate"}
  /\ runs' = setRun(r, routeThrow(runs[r]))
  /\ UNCHANGED <<workflows, executions, scheduledWorkflows, tasks, env, lastCall>>

\* the update issued by the .catch of POST resolves
RouteLastUpdate(r) ==
  /\ r \in DOMAIN runs
  /\ runs[r].path = "route" /\ runs[r].pc = "lastUpdate"
  /\ executions' = [executions EXCEPT
                      ![runs[r].executionId] = applyUpdate(@, Get(runs[r].data))]
  /\ runs' = setRun(r, [runs[r] EXCEPT !.pc = "done"])
  /\ UNCHANGED <<workflows, scheduledWorkflows, tasks, env, lastCall>>

\* timer fires, run-now requests and the steps of their runs, each store call
\* of which either resolves or throws
FaultNext ==
  \/ \E t \in DOMAIN tasks : TimerFire(t)
  \/ \E r \in DOMAIN runs : ScheduledFindUnique(r)
  \/ \E r \in DOMAIN runs : ScheduledCreate(r)
  \/ \E r \in DOMAIN runs : ScheduledUpdate(r)
  \/ \E r \in DOMAIN runs : ScheduledStoreThrows(r)
  \/ \E id \in WorkflowIds : PostExecute(id)
  \/ \E r \in DOMAIN runs : RouteFindUnique(r)
  \/ \E r \in DOMAIN runs : RouteCreate(r)
  \/ \E r \in DOMAIN runs : RouteUpdate(r)
  \/ \E r \in DOMAIN runs : RouteLastUpdate(r)
  \/ \E r \in DOMAIN runs : RouteStoreThrows(r)

FaultSpec == EngineInit /\ [][FaultNext]_vars

\* -------------------------------------------------------------- initialize
\* the empty string as a stored schedule
EmptyCron == <<>>

\* the values of the schedule column of a stored workflow
StoredSchedules ==
  {None, Some(EveryMinute), Some(MondayNine), Some(NotACron), Some(EmptyCron)}

\* mutant: every workflow with a schedule is loaded, active or not
findManyAll(store) ==
  { id \in DOMAIN store : store[id].exists /\ IsSome(store[id].schedule) }

\* db.workflow.findMany({where: {isActive: true, schedule: {not: null}}}): the ids
findMany(store) ==
  { id \in DOMAIN store :
       store[id].exists /\ store[id].isActive /\ IsSome(store[id].schedule) }

\* the orders in which the store may return a set of rows (no orderBy is given)
Orders(S) ==
  { seq \in [1..Cardinality(S) -> S] :
       \A i, j \in 1..Cardinality(S) : i # j => seq[i] # seq[j] }

\* the effect on <<scheduledWorkflows, tasks>> of a scheduleWorkflow that validates
scheduled(map, ts, workflowId, schedule) ==
  LET u == unscheduled(map, ts, workflowId)
  IN  << (workflowId :> [id |-> workflowId, workflowId |-> workflowId,
                         schedule |-> schedule, task |-> Len(ts) + 1]) @@ u[1],
         Append(u[2], [workflowId |-> workflowId, schedule |-> schedule, running |-> TRUE]) >>

\* the for loop of initialize over the loaded rows: a row with a falsy
\* schedule is passed over, a throw of scheduleWorkflow ends the loop
RECURSIVE initializeLoop(_, _, _, _)
initializeLoop(found, i, map, ts) ==
  IF i > Len(found) THEN [map |-> map, ts |-> ts, error |-> None]
  ELSE LET schedule == Get(workflows[found[i]].schedule)
       IN  IF schedule = EmptyCron THEN initializeLoop(found, i + 1, map, ts)
           ELSE IF ~validate(schedule)
           THEN [map |-> map, ts |-> ts, error |-> Some(InvalidCron(schedule))]
           ELSE LET u == scheduled(map, ts, found[i], schedule)
                IN  initializeLoop(found, i + 1, u[1], u[2])

\* initialize() is called: findMany is issued
initialize ==
  /\ Len(tasks) + Len(runs) + Cardinality(WorkflowIds) < MaxEvents
  /\ runs' = Append(runs, [path |-> "initialize", pc |-> "findMany", found |-> <<>>])
  /\ UNCHANGED <<workflows, executions, scheduledWorkflows, tasks, env, lastCall>>

\* findMany resolves with its rows in some order, the loop runs, initialize
\* returns or throws what scheduleWorkflow threw
InitializeLoad(r) ==
  /\ r \in DOMAIN runs
  /\ runs[r].path = "initialize" /\ runs[r].pc = "findMany"
  /\ \E found \in Orders(findMany(workflows)) :
        LET out == initializeLoop(found, 1, scheduledWorkflows, tasks)
        IN  /\ scheduledWorkflows' = out.map
            /\ tasks' = out.ts
            /\ runs' = setRun(r, [runs[r] EXCEPT
                                    !.pc = IF IsSome(out.error) THEN "threw" ELSE "done",
                                    !.found = found])
            /\ lastCall' = Call("initialize", "", out.error)
  /\ UNCHANGED <<workflows, executions, env>>

\* the stores a process may start with: every combination of isActive and
\* schedule for the two workflows; nothing is scheduled yet
LoadInit ==
  /\ workflows \in [WorkflowIds ->
                      { [Workflow(active, GraphSingle) EXCEPT !.schedule = schedule] :
                           active \in BOOLEAN, schedule \in StoredSchedules }]
  /\ env = EnvSlack
  /\ executions = <<>>
  /\ scheduledWorkflows = <<>>
  /\ tasks = <<>>
  /\ runs = <<>>
  /\ lastCall = Call("none", "", None)

LoadNext ==
  \/ initialize
  \/ \E r \in DOMAIN runs : InitializeLoad(r)

LoadSpec == LoadInit /\ [][LoadNext]_vars

\* ------------------------------------------------------------ slack nodes
\* the notifier of a behaviour: not configured, sending, answering with an
\* error, or throwing
SlackEnvs ==
  { [faults |-> {}, slack |-> s] : s \in {"unconfigured", "ok", "notok", "throws"} }

\* slack nodes with and without channel and message in their config
SlackNodes ==
  { Node("M1", "slack", [NoConfig EXCEPT !.channel = channel, !.message = message]) :
       channel \in {None, Some("#ops")}, message \in {None, Some("deployed")} }

\* executeSlack(node, context) is called and returns or throws
CallExecuteSlack(node) ==
  /\ Len(tasks) + Len(runs) < MaxEvents
  /\ runs' = Append(runs, [path |-> "executeSlack", node |-> node, pc |-> "returned",
                           result |-> executeSlack(node, <<>>, env)])
  /\ UNCHANGED <<workflows, executions, scheduledWorkflows, tasks, env, lastCall>>

\* a store whose workflow w1 holds a slack node, under each notifier
SlackInit ==
  /\ workflows = [id \in WorkflowIds |->
                    IF id = "w1" THEN Workflow(TRUE, GraphScenario)
                    ELSE Workflow(TRUE, GraphSingle)]
  /\ env \in SlackEnvs
  /\ executions = <<>>
  /\ scheduledWorkflows = <<>>
  /\ tasks = <<>>
  /\ runs = <<>>
  /\ lastCall = Call("none", "", None)

\* calls of the slack handler and run-now requests
SlackNext ==
  \/ \E node \in SlackNodes : CallExecuteSlack(node)
  \/ \E id \in WorkflowIds : PostExecute(id)
  \/ \E r \in DOMAIN runs : RouteFindUnique(r)
  \/ \E r \in DOMAIN runs : RouteCreate(r)
  \/ \E r \in DOMAIN runs : RouteUpdate(r)

SlackSpec == SlackInit /\ [][SlackNext]_vars

\* ------------------------------------------------- the walk of executeNode
\* A walk is one call of executeNode on the trigger node with the calls it
\* makes in turn.  Each call is a visit: parent is the visit whose loop made
\* the call (0 for the first), phase is "handler" while the switch on
\* node.type and the handler it awaits are in progress, "children" while the
\* for loop over graph[node.nodeId] runs, then "returned" or "threw"; next is
\* the position of the loop.
newVisit(node, parent) == [node |-> node, parent |-> parent, phase |-> "handler", next |-> 1]

\* the visits called by visit v that have not finished
PendingChildren(visits, v) ==
  { c \in DOMAIN visits : visits[c].parent = v /\ visits[c].phase \in {"handler", "children"} }

\* a throw inside a visit rejects every call that awaits it
thrown(visits) ==
  [v \in DOMAIN visits |->
     IF visits[v].phase \in {"handler", "children"} THEN [visits[v] EXCEPT !.phase = "threw"]
     ELSE visits[v]]

\* executeNode(triggerNode, executionGraph, {}) is called by runWorkflow
\* (route = FALSE) or by executeWorkflow (route = TRUE)
WalkStart(workflowId, route) ==
  /\ Len(tasks) + Len(runs) < MaxEvents
  /\ workflows[workflowId].exists
  /\ IsSome(findTrigger(workflows[workflowId].nodes))
  /\ buildGraph(workflows[workflowId].nodes, workflows[workflowId].edges).ok
  /\ runs' = Append(runs,
        [path |-> "walk", workflowId |-> workflowId, route |-> route, pc |-> "executeNode",
         workflow |-> workflows[workflowId],
         graph |-> buildExecutionGraph(workflows[workflowId].nodes,
                                       workflows[workflowId].edges),
         visits |-> << newVisit(Get(findTrigger(workflows[workflowId].nodes)), 0) >>])
  /\ UNCHANGED <<workflows, executions, scheduledWorkflows, tasks, env, lastCall>>

\* the switch of visit v is left: its handler has returned or thrown
HandlerReturns(r, v) ==
  /\ r \in DOMAIN runs /\ runs[r].path = "walk"
  /\ v \in DOMAIN runs[r].visits
  /\ runs[r].visits[v].phase = "handler"
  /\ \E rand \in RandPool :
        LET node == runs[r].visits[v].node
            result == IF runs[r].route THEN dispatchRoute(node, <<>>, env, rand)
                      ELSE dispatch(node, <<>>, env, rand)
        IN  runs' = setRun(r, [runs[r] EXCEPT
                                 !.visits = IF result.ok
                                            THEN [@ EXCEPT ![v].phase = "children"]
                                            ELSE thrown(@)])
  /\ UNCHANGED <<workflows, executions, scheduledWorkflows, tasks, env, lastCall>>

\* mutant: the children are looked up among the workflow's nodes and all
\* called at once, without awaiting one before calling the next
LoopStepAll(r, v) ==
  /\ r \in DOMAIN runs /\ runs[r].path = "walk"
  /\ v \in DOMAIN runs[r].visits
  /\ runs[r].visits[v].phase = "children"
  /\ PendingChildren(runs[r].visits, v) = {}
  /\ LET visit == runs[r].visits[v]
         childNodes == IF visit.node.nodeId \in DOMAIN runs[r].graph
                       THEN runs[r].graph[visit.node.nodeId] ELSE <<>>
         nodes == workflows[runs[r].workflowId].nodes
         found == SelectSeq(childNodes, LAMBDA c : IsSome(getNodeById(c, nodes)))
     IN  IF visit.next > Len(childNodes)
         THEN runs' = setRun(r, [runs[r] EXCEPT !.visits[v].phase = "returned"])
         ELSE runs' = setRun(r, [runs[r] EXCEPT
                 !.visits = [@ EXCEPT ![v].next = Len(childNodes) + 1]
                            \o [k \in 1..Len(found) |->
                                  newVisit(Get(getNodeById(found[k], nodes)), v)]])
  /\ UNCHANGED <<workflows, executions, scheduledWorkflows, tasks, env, lastCall>>

\* one turn of the for loop of visit v, which is not awaiting a child: the
\* child id is looked up and, when a node is found, executeNode is called on
\* it and awaited; after the last child id the visit returns
LoopStep(r, v) ==
  /\ r \in DOMAIN runs /\ runs[r].path = "walk"
  /\ v \in DOMAIN runs[r].visits
  /\ runs[r].visits[v].phase = "children"
  /\ PendingChildren(runs[r].visits, v) = {}
  /\ LET visit == runs[r].visits[v]
         childNodes == IF visit.node.nodeId \in DOMAIN runs[r].graph
                       THEN runs[r].graph[visit.node.nodeId] ELSE <<>>
     IN  IF visit.next > Len(childNodes)
         THEN runs' = setRun(r, [runs[r] EXCEPT !.visits[v].phase = "returned"])
         ELSE LET childNode == getNodeById(childNodes[visit.next], lookupNodes(runs[r].graph))
              IN  runs' = setRun(r, [runs[r] EXCEPT
                      !.visits = IF IsSome(childNode)
                                 THEN Append([@ EXCEPT ![v].next = visit.next + 1],
                                             newVisit(Get(childNode), v))
                                 ELSE [@ EXCEPT ![v].next = visit.next + 1]])
  /\ UNCHANGED <<workflows, executions, scheduledWorkflows, tasks, env, lastCall>>

\* a store in each world, nothing scheduled
WalkInit ==
  /\ \E w \in Worlds :
        /\ workflows = [id \in WorkflowIds |->
                          IF id = "w1" THEN Workflow(TRUE, w[1])
                          ELSE Workflow(w[3], GraphSingle)]
        /\ env = w[2]
  /\ executions = <<>>
  /\ scheduledWorkflows = <<>>
  /\ tasks = <<>>
  /\ runs = <<>>
  /\ lastCall = Call("none", "", None)

WalkNext ==
  \/ \E id \in WorkflowIds, route \in BOOLEAN : WalkStart(id, route)
  \/ \E r \in DOMAIN runs : \E v \in DOMAIN runs[r].visits : HandlerReturns(r, v)
  \/ \E r \in DOMAIN runs : \E v \in DOMAIN runs[r].visits : LoopStep(r, v)

WalkSpec == WalkInit /\ [][WalkNext]_vars

\* ------------------------------------------------ graph edits during runs
\* the bodies of the PUT requests that carry nodes or edges, in stored form:
\* a whole graph, an empty list of nodes, edges alone
\* (nodeId from node.id, type from node.data.type, title from node.data.label,
\* sourceId and targetId from edge.source and edge.target)
PutBodies ==
  { [nodes |-> Some(GraphOrder.nodes), edges |-> Some(GraphOrder.edges)],
    [nodes |-> Some(<<>>), edges |-> None],
    [nodes |-> None, edges |-> Some(<< Edge("T1", "ghost") >>)] }

\* PUT /api/workflows/[id] with nodes or edges in its body is received
PutRequest(workflowId, body) ==
  /\ Len(tasks) + Len(runs) < MaxEvents
  /\ runs' = Append(runs, [path |-> "put", workflowId |-> workflowId, pc |-> "update",
                           nodes |-> body.nodes, edges |-> body.edges, response |-> 0])
  /\ UNCHANGED <<workflows, executions, scheduledWorkflows, tasks, env, lastCall>>

\* the await the PUT handler reaches once its nodes are written (or skipped)
putAfterNodes(run) == IF IsSome(run.edges) THEN "deleteEdges" ELSE "done"

\* PUT: one store call of the handler resolves.  db.workflow.update throws for
\* a missing workflow, createMany throws when the workflow its rows refer to
\* is gone; the catch answers 500.  deleteMany and createMany are separate
\* calls, each replacing the rows of the workflow as a whole.
PutStep(r) ==
  /\ r \in DOMAIN runs /\ runs[r].path = "put"
  /\ runs[r].pc \in {"update", "deleteNodes", "createNodes", "deleteEdges", "createEdges"}
  /\ LET run == runs[r]
         id == run.workflowId
         gone == ~workflows[id].exists
         failed == [run EXCEPT !.pc = "rejected", !.response = 500]
         ended(pc) == [run EXCEPT !.pc = pc, !.response = IF pc = "done" THEN 200 ELSE 0]
     IN  CASE run.pc = "update" ->
                /\ runs' = setRun(r, IF gone THEN failed
                                     ELSE IF IsSome(run.nodes) THEN ended("deleteNodes")
                                     ELSE ended(putAfterNodes(run)))
                /\ workflows' = workflows
           [] run.pc = "deleteNodes" ->
                /\ runs' = setRun(r, ended("createNodes"))
                /\ workflows' = [workflows EXCEPT ![id].nodes = <<>>]
           [] run.pc = "createNodes" ->
                /\ runs' = setRun(r, IF gone THEN failed ELSE ended(putAfterNodes(run)))
                /\ workflows' = IF gone THEN workflows
                                ELSE [workflows EXCEPT ![id].nodes = Get(run.nodes)]
           [] run.pc = "deleteEdges" ->
                /\ runs' = setRun(r, ended("createEdges"))
                /\ workflows' = [workflows EXCEPT ![id].edges = <<>>]
           [] run.pc = "createEdges" ->
                /\ runs' = setRun(r, IF gone THEN failed ELSE ended("done"))
                /\ workflows' = IF gone THEN workflows
                                ELSE [workflows EXCEPT ![id].edges = Get(run.edges)]
  /\ UNCHANGED <<executions, scheduledWorkflows, tasks, env, lastCall>>

\* timer fires, run-now requests and walks, interleaved with the requests
\* that replace and delete the graph they were loaded from
EditNext ==
  \/ \E t \in DOMAIN tasks : TimerFire(t)
  \/ \E r \in DOMAIN runs : ScheduledFindUnique(r)
  \/ \E r \in DOMAIN runs : ScheduledCreate(r)
  \/ \E r \in DOMAIN runs : ScheduledUpdate(r)
  \/ \E id \in WorkflowIds : PostExecute(id)
  \/ \E r \in DOMAIN runs : RouteFindUnique(r)
  \/ \E r \in DOMAIN runs : RouteCreate(r)
  \/ \E r \in DOMAIN runs : RouteUpdate(r)
  \/ \E route \in BOOLEAN : WalkStart("w1", route)
  \/ \E r \in {w \in DOMAIN runs : runs[w].path = "walk"} :
        \E v \in DOMAIN runs[r].visits : HandlerReturns(r, v)
  \/ \E r \in {w \in DOMAIN runs : runs[w].path = "walk"} :
        \E v \in DOMAIN runs[r].visits : LoopStep(r, v)
  \/ \E body \in PutBodies : PutRequest("w1", body)
  \/ \E r \in DOMAIN runs : PutStep(r)
  \/ DeleteWorkflow("w1")

\* w1, active, is scheduled every minute; w2 is stored inactive
EditInit ==
  /\ workflows = [id \in WorkflowIds |->
                    IF id = "w1" THEN Workflow(TRUE, GraphScenario)
                    ELSE Workflow(FALSE, GraphSingle)]
  /\ env = EnvSlack
  /\ executions = <<>>
  /\ runs = <<>>
  /\ tasks = << [workflowId |-> "w1", schedule |-> EveryMinute, running |-> TRUE] >>
  /\ scheduledWorkflows =
       ("w1" :> [id |-> "w1", workflowId |-> "w1", schedule |-> EveryMinute, task |-> 1])
  /\ lastCall = Call("scheduleWorkflow", "w1", None)

EditSpec == EditInit /\ [][EditNext]_vars

\* ------------------------------------------- generate, create and update
\* the node types validateWorkflow accepts
ValidNodeTypes ==
  {"trigger", "action", "condition", "delay", "webhook", "email", "database", "slack",
   "google-sheets", "discord", "http-request"}

\* two nodes with the id T1
GraphTwins ==
  [nodes |-> << Node("T1", "trigger", NoConfig), Node("T1", "action", NoConfig) >>,
   edges |-> << >>]

\* an edge to an id that no node has
GraphDangling ==
  [nodes |-> << Node("T1", "trigger", NoConfig) >>, edges |-> << Edge("T1", "ghost") >>]

GraphEmpty == [nodes |-> << >>, edges |-> << >>]

\* the node ids in nodes[1..i]
idsBefore(nodes, i) == { nodes[k].nodeId : k \in 1..(i - 1) }

\* WorkflowGenerator.validateWorkflow on the nodes and edges of a generated
\* workflow whose name, description, titles and positions are well formed:
\* the checks in the order the code makes them, the first failure thrown
validateWorkflow(workflow) ==
  LET nodes == workflow.nodes
      edges == workflow.edges
      nodeIds == { nodes[k].nodeId : k \in DOMAIN nodes }
      badNodes == { k \in DOMAIN nodes :
                      \/ nodes[k].nodeId \in idsBefore(nodes, k)
                      \/ nodes[k].type \notin ValidNodeTypes }
      firstBad == CHOOSE k \in badNodes : \A j \in badNodes : k <= j
  IN  IF Len(nodes) = 0 THEN Throw("Workflow must have at least one node")
      ELSE IF badNodes # {}
      THEN (IF nodes[firstBad].nodeId \in idsBefore(nodes, firstBad)
            THEN Throw(<<"Duplicate node ID: ", nodes[firstBad].nodeId>>)
            ELSE Throw(<<"Invalid node type: ", nodes[firstBad].type>>))
      ELSE IF \E e \in DOMAIN edges :
                edges[e].sourceId \notin nodeIds \/ edges[e].targetId \notin nodeIds
      THEN Throw("Edge references non-existent node")
      ELSE IF ~\E k \in DOMAIN nodes : nodes[k].type = "trigger"
      THEN Throw("Workflow must have at least one trigger node")
      ELSE Ok(workflow)

\* the workflows the completion may describe
GeneratedPool ==
  {GraphScenario, GraphNoTrigger, GraphCycle, GraphTwins, GraphDangling, GraphEmpty}

\* generateWorkflow: the parsed completion is validated and returned, or the
\* error of the validation is thrown on; nothing is stored
generateWorkflow(workflowData) ==
  /\ Len(tasks) + Len(runs) < MaxEvents
  /\ LET checked == validateWorkflow(workflowData)
     IN  runs' = Append(runs,
           [path |-> "generate", workflowData |-> workflowData,
            pc |-> IF checked.ok THEN "returned" ELSE "threw",
            error |-> IF checked.ok THEN None
                      ELSE Some(<<"Failed to generate workflow: ", checked.error>>)])
  /\ UNCHANGED <<workflows, executions, scheduledWorkflows, tasks, env, lastCall>>

\* the bodies of POST /api/workflows (name and prompt given), in stored form
PostBodies ==
  { [nodes |-> None, edges |-> None],
    [nodes |-> Some(GraphOrder.nodes), edges |-> Some(GraphOrder.edges)],
    [nodes |-> Some(GraphTwins.nodes), edges |-> Some(GraphDangling.edges)] }

\* POST /api/workflows: db.workflow.create stores the workflow, active, with
\* the nodes and edges of the body as they are (none when the key is absent)
PostWorkflow(workflowId, body) ==
  /\ ~workflows[workflowId].exists
  /\ workflows' = [workflows EXCEPT
                     ![workflowId] = [Workflow(TRUE, GraphEmpty) EXCEPT
                                        !.nodes = OrElse(body.nodes, <<>>),
                                        !.edges = OrElse(body.edges, <<>>)]]
  /\ UNCHANGED <<executions, scheduledWorkflows, tasks, runs, env, lastCall>>

\* w1 is stored with a generated graph, w2 is not stored yet
GraphInit ==
  /\ workflows = [id \in WorkflowIds |->
                    IF id = "w1" THEN Workflow(TRUE, GraphScenario)
                    ELSE [Workflow(TRUE, GraphEmpty) EXCEPT !.exists = FALSE]]
  /\ env = EnvSlack
  /\ executions = <<>>
  /\ scheduledWorkflows = <<>>
  /\ tasks = <<>>
  /\ runs = <<>>
  /\ lastCall = Call("none", "", None)

\* generate, create and update requests in any order
GraphNext ==
  \/ \E workflowData \in GeneratedPool : generateWorkflow(workflowData)
  \/ \E id \in WorkflowIds, body \in PostBodies : PostWorkflow(id, body)
  \/ \E body \in PutBodies : PutRequest("w1", body)
  \/ \E r \in DOMAIN runs : PutStep(r)

GraphSpec == GraphInit /\ [][GraphNext]_vars

\* ------------------------------------------------ the execution graph
\* an edge whose source names a member of Object.prototype and no node
GraphPrototype ==
  [nodes |-> << Node("T1", "trigger", NoConfig), Node("A1", "action", NoConfig) >>,
   edges |-> << Edge("T1", "A1"), Edge("constructor", "A1") >>]

\* stored graphs with edges from and to ids that no node has
BuildPool == {GraphScenario, GraphDuplicate, GraphCycle, GraphDangling, GraphPrototype}

\* buildExecutionGraph(workflow.nodes, workflow.edges) is called on a stored
\* workflow
CallBuildExecutionGraph(workflowId) ==
  /\ Len(tasks) + Len(runs) < MaxEvents
  /\ LET built == buildGraph(workflows[workflowId].nodes, workflows[workflowId].edges)
     IN  runs' = Append(runs,
           [path |-> "build", workflowId |-> workflowId,
            nodes |-> workflows[workflowId].nodes, edges |-> workflows[workflowId].edges,
            pc |-> IF built.ok THEN "returned" ELSE "threw", result |-> built])
  /\ UNCHANGED <<workflows, executions, scheduledWorkflows, tasks, env, lastCall>>

\* two stored workflows, nothing scheduled, no handler fault
BuildInit ==
  /\ \E g1 \in BuildPool :
        workflows = [id \in WorkflowIds |->
                       IF id = "w1" THEN Workflow(TRUE, g1) ELSE Workflow(TRUE, GraphSingle)]
  /\ env = EnvSlack
  /\ executions = <<>>
  /\ scheduledWorkflows = <<>>
  /\ tasks = <<>>
  /\ runs = <<>>
  /\ lastCall = Call("none", "", None)

\* calls of buildExecutionGraph, and walks over the graphs it returns
BuildNext ==
  \/ \E id \in WorkflowIds : CallBuildExecutionGraph(id)
  \/ \E route \in BOOLEAN : WalkStart("w1", route)
  \/ \E r \in {w \in DOMAIN runs : runs[w].path = "walk"} :
        \E v \in DOMAIN runs[r].visits : HandlerReturns(r, v)
  \/ \E r \in {w \in DOMAIN runs : runs[w].path = "walk"} :
        \E v \in DOMAIN runs[r].visits : LoopStep(r, v)

BuildSpec == BuildInit /\ [][BuildNext]_vars

\* ------------------------------------------ scheduler calls during runs
\* timer fires and the steps of their runs, interleaved with scheduler calls
\* and with the deactivation of workflows
CancelNext ==
  \/ \E t \in DOMAIN tasks : TimerFire(t)
  \/ \E r \in DOMAIN runs : ScheduledFindUnique(r)
  \/ \E r \in DOMAIN runs : ScheduledCreate(r)
  \/ \E r \in DOMAIN runs : ScheduledUpdate(r)
  \/ \E id \in WorkflowIds : scheduleWorkflow(id, MondayNine)
  \/ \E id \in WorkflowIds : unscheduleWorkflow(id)
  \/ shutdown
  \/ \E id \in WorkflowIds : PutWorkflow(id, FALSE)

\* as StoreInit; the event loop resumes every run whose await has resolved
CancelSpec == StoreInit /\ [][CancelNext]_vars /\ WF_vars(RunStep)

\* ------------------------------------------------ calls of the node switch
\* one node of every type the switches name, delay nodes with delayMs absent,
\* 0 and 100, and a node of a type no switch names
NodePool ==
  { Node("N1", type, NoConfig) :
       type \in {"trigger", "action", "condition", "email", "database", "webhook",
                 "slack", "spreadsheet"} }
  \cup { Node("D1", "delay", [NoConfig EXCEPT !.delayMs = delayMs]) :
            delayMs \in {None, Some(0), Some(100)} }

\* contexts and handler results that share keys and that do not
ContextPool == { <<>>, [triggered |-> FALSE], [action |-> "A0", executed |-> FALSE] }
ResultPool == { [triggered |-> TRUE], [action |-> "A1", executed |-> TRUE] }

\* the switch on node.type of executeNode is run for a node, in the scheduler's
\* copy (route = FALSE) or in the run-now route's copy (route = TRUE)
CallDispatch(node, route) ==
  /\ Len(runs) < MaxCalls
  /\ \E rand \in RandPool :
        runs' = Append(runs, [path |-> "dispatch", node |-> node, route |-> route,
                             pc |-> "returned",
                             result |-> IF route THEN dispatchRoute(node, <<>>, env, rand)
                                        ELSE dispatch(node, <<>>, env, rand)])
  /\ UNCHANGED <<workflows, executions, scheduledWorkflows, tasks, env, lastCall>>

\* the argument { ...context, ...result } of a child call is evaluated
CallChildContext(context, result) ==
  /\ Len(runs) < MaxCalls
  /\ runs' = Append(runs, [path |-> "childContext", context |-> context, result |-> result,
                           pc |-> "returned", merged |-> childContext(context, result)])
  /\ UNCHANGED <<workflows, executions, scheduledWorkflows, tasks, env, lastCall>>

\* no handler is made to throw; the notifier is configured or not
DispatchInit ==
  /\ workflows = [id \in WorkflowIds |-> Workflow(TRUE, GraphSingle)]
  /\ env \in { e \in SlackEnvs : e.slack \in {"unconfigured", "ok"} }
  /\ executions = <<>>
  /\ scheduledWorkflows = <<>>
  /\ tasks = <<>>
  /\ runs = <<>>
  /\ lastCall = Call("none", "", None)

DispatchNext ==
  \/ \E node \in NodePool, route \in BOOLEAN : CallDispatch(node, route)
  \/ \E context \in ContextPool, result \in ResultPool : CallChildContext(context, result)

DispatchSpec == DispatchInit /\ [][DispatchNext]_vars

\* ------------------------------------------------- the scheduler's methods
\* mutant: clearing a schedule removes the binding and leaves its timer running
updateWorkflowScheduleKeepTimer(workflowId, schedule) ==
  /\ IF IsSome(schedule) /\ Get(schedule) # EmptyCron
     THEN IF ~validate(Get(schedule))
          THEN /\ lastCall' = Call("updateWorkflowSchedule", workflowId,
                                   Some(InvalidCron(Get(schedule))))
               /\ UNCHANGED <<scheduledWorkflows, tasks>>
          ELSE /\ Len(tasks) + Len(runs) < MaxEvents
               /\ LET u == scheduled(scheduledWorkflows, tasks, workflowId, Get(schedule))
                  IN  scheduledWorkflows' = u[1] /\ tasks' = u[2]
               /\ lastCall' = Call("updateWorkflowSchedule", workflowId, None)
     ELSE /\ scheduledWorkflows' = deleteBinding(scheduledWorkflows, workflowId)
          /\ tasks' = tasks
          /\ lastCall' = Call("updateWorkflowSchedule", workflowId, None)
  /\ UNCHANGED <<workflows, executions, runs, env>>

\* updateWorkflowSchedule(workflowId, schedule): scheduleWorkflow for a truthy
\* schedule, unscheduleWorkflow for null or the empty string
updateWorkflowSchedule(workflowId, schedule) ==
  /\ IF IsSome(schedule) /\ Get(schedule) # EmptyCron
     THEN IF ~validate(Get(schedule))
          THEN /\ lastCall' = Call("updateWorkflowSchedule", workflowId,
                                   Some(InvalidCron(Get(schedule))))
               /\ UNCHANGED <<scheduledWorkflows, tasks>>
          ELSE /\ Len(tasks) + Len(runs) < MaxEvents
               /\ LET u == scheduled(scheduledWorkflows, tasks, workflowId, Get(schedule))
                  IN  scheduledWorkflows' = u[1] /\ tasks' = u[2]
               /\ lastCall' = Call("updateWorkflowSchedule", workflowId, None)
     ELSE /\ LET u == unscheduled(scheduledWorkflows, tasks, workflowId)
             IN  scheduledWorkflows' = u[1] /\ tasks' = u[2]
          /\ lastCall' = Call("updateWorkflowSchedule", workflowId, None)
  /\ UNCHANGED <<workflows, executions, runs, env>>

\* stores of two active workflows: w1 with a well-formed or a malformed
\* schedule, w2 with a well-formed schedule or none; nothing is scheduled yet
SchedulerInit ==
  /\ \E s1 \in {Some(EveryMinute), Some(NotACron)}, s2 \in {None, Some(MondayNine)} :
        workflows = [id \in WorkflowIds |->
                       [Workflow(TRUE, GraphSingle) EXCEPT
                          !.schedule = IF id = "w1" THEN s1 ELSE s2]]
  /\ env = EnvSlack
  /\ executions = <<>>
  /\ scheduledWorkflows = <<>>
  /\ tasks = <<>>
  /\ runs = <<>>
  /\ lastCall = Call("none", "", None)

\* every public method of WorkflowScheduler, in any order
SchedulerNext ==
  \/ initialize
  \/ \E r \in DOMAIN runs : InitializeLoad(r)
  \/ \E id \in WorkflowIds, schedule \in CronPool : scheduleWorkflow(id, schedule)
  \/ \E id \in WorkflowIds : unscheduleWorkflow(id)
  \/ \E id \in WorkflowIds, schedule \in StoredSchedules : updateWorkflowSchedule(id, schedule)
  \/ shutdown

SchedulerSpec == SchedulerInit /\ [][SchedulerNext]_vars

\* ================================================================ claims
Terminal(execution) == execution.status \in {"completed", "failed"}

\* the run that created Execution i, and the workflow it loaded
RunOf(i) == CHOOSE r \in DOMAIN runs : runs[r].executionId = i
SnapshotOf(i) == Get(runs[RunOf(i)].workflow)

Range(seq) == { seq[k] : k \in DOMAIN seq }

RECURSIVE reachClosure(_, _)
reachClosure(graph, S) ==
  LET N == S \cup UNION { Range(graph[n]) : n \in S \cap DOMAIN graph }
  IN  IF N = S THEN S ELSE reachClosure(graph, N)

\* the node ids reachable from id by one or more edges
ReachableFrom(graph, id) ==
  IF id \in DOMAIN graph THEN reachClosure(graph, Range(graph[id])) ELSE {}

HasCycle(graph) == \E n \in DOMAIN graph : n \in ReachableFrom(graph, n)

TriggerCount(workflow) ==
  Cardinality({ k \in DOMAIN workflow.nodes : workflow.nodes[k].type = "trigger" })

OneTriggerAcyclic(workflow) ==
  /\ TriggerCount(workflow) = 1
  /\ ~HasCycle(buildExecutionGraph(workflow.nodes, workflow.edges))

\* C1: every Execution record is created with status 'running'; its status only
\* ever changes from 'running' to 'completed' or 'failed'; once it is
\* 'completed' or 'failed', no step changes its status, output or error.
C1_StatusChangesOnce ==
  [][ /\ \A i \in DOMAIN executions' \ DOMAIN executions :
            executions'[i].status = "running"
      /\ \A i \in DOMAIN executions :
            /\ i \in DOMAIN executions'
            /\ executions'[i].status # executions[i].status
                 => /\ executions[i].status = "running"
                    /\ executions'[i].status \in {"completed", "failed"}
            /\ Terminal(executions[i])
                 => /\ executions'[i].status = executions[i].status
                    /\ executions'[i].output = executions[i].output
                    /\ executions'[i].error = executions[i].error ]_vars

\* a scheduled run and a run-now run have both reached a terminal status
C1_Witness ==
  \E i, j \in DOMAIN executions :
     /\ executions[i].input = "scheduler" /\ Terminal(executions[i])
     /\ executions[j].input = "none" /\ Terminal(executions[j])

\* C2: for a graph with exactly one trigger node and no cycle, a run that has
\* created its Execution record ends with the record 'completed' or 'failed'.
C2_RunTerminates ==
  \A i \in 1..MaxEvents :
     (i \in DOMAIN executions /\ OneTriggerAcyclic(SnapshotOf(i)))
       ~> (i \in DOMAIN executions /\ Terminal(executions[i]))

C2_Witness ==
  \E i \in DOMAIN executions :
     /\ OneTriggerAcyclic(SnapshotOf(i))
     /\ Len(SnapshotOf(i).edges) > 0
     /\ Terminal(executions[i])

\* the result r is the result of the handler of node (compared by its type and title)
ResultOfNode(r, node) ==
  IF node.type = "trigger" THEN "triggered" \in DOMAIN r
  ELSE IF node.type \in {"action", "condition", "delay", "email", "database", "webhook", "slack"}
       THEN node.type \in DOMAIN r /\ r[node.type] = node.title
       ELSE "type" \in DOMAIN r /\ r.type = node.type

\* the targets of the edges whose source is nodeId that are nodes, in declaration order
ChildIds(workflow, nodeId) ==
  SelectSeq(targetsOf(workflow.edges, nodeId),
            LAMBDA t : IsSome(getNodeById(t, workflow.nodes)))

RECURSIVE ChildrenInEdgeOrder(_, _, _)
ChildrenInEdgeOrder(result, nodeId, workflow) ==
  LET targets == ChildIds(workflow, nodeId)
  IN  /\ Len(result.children) = Len(targets)
      /\ \A k \in 1..Len(targets) :
            /\ ResultOfNode(result.children[k], Get(getNodeById(targets[k], workflow.nodes)))
            /\ ChildrenInEdgeOrder(result.children[k], targets[k], workflow)

\* C3: in the output of a completed run, the children of every visited node N
\* are the results of the targets of N's edges, in edge declaration order.
C3_ChildOrder ==
  \A i \in DOMAIN executions :
     executions[i].status = "completed"
       => ChildrenInEdgeOrder(Get(executions[i].output),
                              Get(findTrigger(SnapshotOf(i).nodes)).nodeId, SnapshotOf(i))

RECURSIVE ChildPerEdge(_, _, _)
ChildPerEdge(result, nodeId, workflow) ==
  LET targets == ChildIds(workflow, nodeId)
  IN  /\ Len(result.children) = Len(targets)
      /\ \A k \in 1..Len(targets) : ChildPerEdge(result.children[k], targets[k], workflow)

IsGraph(workflow, graph) == workflow.nodes = graph.nodes /\ workflow.edges = graph.edges

\* C4: the output of a completed run has one child result per edge of every
\* visited node (parallel edges each give an entry); for the graph
\* trigger(T1) -> action(A1) -> [slack(M1), delay(D1)] run by the run-now route
\* with no notifier, output.children[0].children is an entry with simulated:true
\* followed by one with delayed:true.
C4_OutputMirrorsGraph ==
  \A i \in DOMAIN executions :
     executions[i].status = "completed"
       => LET out == Get(executions[i].output)
              workflow == SnapshotOf(i)
          IN  /\ ChildPerEdge(out, Get(findTrigger(workflow.nodes)).nodeId, workflow)
              /\ (IsGraph(workflow, GraphScenario) /\ runs[RunOf(i)].path = "route"
                    /\ ~isConfigured(env))
                   => /\ Len(out.children) = 1
                      /\ Len(out.children[1].children) = 2
                      /\ "simulated" \in DOMAIN out.children[1].children[1]
                      /\ out.children[1].children[1].simulated = TRUE
                      /\ "delayed" \in DOMAIN out.children[1].children[2]
                      /\ out.children[1].children[2].delayed = TRUE

\* C5: a run of a graph without a trigger node never completes, and ends with
\* the Execution 'failed' and the error "No trigger node found in workflow".
C5_NoTriggerFails ==
  \A i \in DOMAIN executions :
     TriggerCount(SnapshotOf(i)) = 0
       => /\ executions[i].status # "completed"
          /\ runs[RunOf(i)].pc = "done"
               => /\ executions[i].status = "failed"
                  /\ executions[i].error = Some("No trigger node found in workflow")

\* a scheduled run and a run-now run of a graph without trigger have both ended
C5_Witness ==
  \E i, j \in DOMAIN executions :
     /\ TriggerCount(SnapshotOf(i)) = 0 /\ TriggerCount(SnapshotOf(j)) = 0
     /\ runs[RunOf(i)].path = "scheduler" /\ runs[RunOf(i)].pc = "done"
     /\ runs[RunOf(j)].path = "route" /\ runs[RunOf(j)].pc = "done"

\* the graph has a node, reachable from its trigger, whose handler is made to throw
ThrowingNodeReachable(workflow) ==
  /\ IsSome(findTrigger(workflow.nodes))
  /\ LET graph == buildExecutionGraph(workflow.nodes, workflow.edges)
         reach == ReachableFrom(graph, Get(findTrigger(workflow.nodes)).nodeId)
     IN  \E k \in DOMAIN workflow.nodes :
            /\ workflow.nodes[k].nodeId \in reach
            /\ workflow.nodes[k].type \in env.faults

RunningTasks(ts, workflowId) ==
  { t \in DOMAIN ts : ts[t].workflowId = workflowId /\ ts[t].running }

\* C7: a scheduleWorkflow(id, e) that creates a timer leaves exactly one binding
\* for id, holding e, and exactly one running timer for id, the new one; the
\* timer of the binding it replaces is stopped; a stopped timer is never
\* started again and only running timers fire.
C7_RescheduleReplaces ==
  [][ /\ Len(tasks') > Len(tasks)
           => LET t == Len(tasks')
                  id == tasks'[t].workflowId
              IN  /\ lastCall' = Call("scheduleWorkflow", id, None)
                  /\ id \in DOMAIN scheduledWorkflows'
                  /\ scheduledWorkflows'[id].task = t
                  /\ scheduledWorkflows'[id].schedule = tasks'[t].schedule
                  /\ RunningTasks(tasks', id) = {t}
                  /\ id \in DOMAIN scheduledWorkflows
                       => ~tasks'[scheduledWorkflows[id].task].running
      /\ \A t \in DOMAIN tasks :
            ~tasks[t].running => (t \in DOMAIN tasks' /\ ~tasks'[t].running)
      /\ \A r \in DOMAIN runs' \ DOMAIN runs :
            runs'[r].path = "scheduler"
              => (runs'[r].task \in DOMAIN tasks /\ tasks[runs'[r].task].running) ]_vars

\* scheduleWorkflow(id, e1) then scheduleWorkflow(id, e2): the first timer is
\* stopped, the binding holds e2 and the second timer
C7_Witness ==
  /\ Len(tasks) = 2
  /\ tasks[1].workflowId = tasks[2].workflowId
  /\ tasks[1].schedule # tasks[2].schedule
  /\ ~tasks[1].running /\ tasks[2].running
  /\ lastCall = Call("scheduleWorkflow", tasks[2].workflowId, None)
  /\ DOMAIN scheduledWorkflows = {tasks[2].workflowId}
  /\ scheduledWorkflows[tasks[2].workflowId].schedule = tasks[2].schedule

\* C8: a scheduleWorkflow call with an invalid expression raises an error, and
\* a call that raises leaves the bindings and the timers as they were; no
\* binding or timer ever holds an invalid expression.
C8_InvalidCronRejected ==
  [][ /\ \A id \in WorkflowIds :
            scheduleWorkflow(id, NotACron)
              => lastCall' = Call("scheduleWorkflow", id, Some(InvalidCron(NotACron)))
      /\ IsSome(lastCall'.error)
           => /\ lastCall'.op = "scheduleWorkflow"
              /\ scheduledWorkflows' = scheduledWorkflows
              /\ tasks' = tasks
      /\ \A id \in DOMAIN scheduledWorkflows' : scheduledWorkflows'[id].schedule # NotACron
      /\ \A t \in DOMAIN tasks' : tasks'[t].schedule # NotACron ]_vars

\* the latest call raised for a workflow whose binding and running timer are in place
C8_Witness ==
  /\ IsSome(lastCall.error)
  /\ lastCall.workflowId \in DOMAIN scheduledWorkflows
  /\ tasks[scheduledWorkflows[lastCall.workflowId].task].running

\* C9: unscheduleWorkflow(id) raises no error; without a binding for id it
\* leaves bindings and timers unchanged; with one it removes that binding only
\* and stops that binding's timer only.
C9_UnscheduleFrame ==
  [][ lastCall'.op = "unscheduleWorkflow"
        => LET id == lastCall'.workflowId
           IN  /\ lastCall'.error = None
               /\ IF id \in DOMAIN scheduledWorkflows
                  THEN /\ DOMAIN scheduledWorkflows' = DOMAIN scheduledWorkflows \ {id}
                       /\ \A o \in DOMAIN scheduledWorkflows' :
                             scheduledWorkflows'[o] = scheduledWorkflows[o]
                       /\ tasks' = [tasks EXCEPT ![scheduledWorkflows[id].task].running = FALSE]
                       /\ tasks[scheduledWorkflows[id].task].running
                  ELSE /\ scheduledWorkflows' = scheduledWorkflows
                       /\ tasks' = tasks ]_vars

\* unscheduleWorkflow of a workflow that was never scheduled, next to a binding
\* whose timer runs
C9_Witness ==
  /\ lastCall = Call("unscheduleWorkflow", "w2", None)
  /\ \A t \in DOMAIN tasks : tasks[t].workflowId # "w2"
  /\ "w1" \in DOMAIN scheduledWorkflows
  /\ tasks[scheduledWorkflows["w1"].task].running

\* C10: after shutdown no timer runs and the binding map is empty, no error is
\* raised, and a further shutdown would leave that state as it is.
C10_ShutdownIdempotent ==
  [][ lastCall'.op = "shutdown"
        => /\ lastCall'.error = None
           /\ DOMAIN scheduledWorkflows' = {}
           /\ Len(tasks') = Len(tasks)
           /\ \A t \in DOMAIN tasks' : ~tasks'[t].running
           /\ shutdownState(scheduledWorkflows', tasks') = <<scheduledWorkflows', tasks'>> ]_vars

\* shutdown was called with two timers created for different workflows
C10_Witness ==
  /\ lastCall.op = "shutdown"
  /\ Len(tasks) = 2
  /\ tasks[1].workflowId # tasks[2].workflowId
  /\ \A t \in DOMAIN tasks : ~tasks[t].running
  /\ DOMAIN scheduledWorkflows = {}

\* the stored workflow is missing or inactive
MissingOrInactive(workflowId) ==
  ~workflows[workflowId].exists \/ ~workflows[workflowId].isActive

\* C11: when the timer callback of a missing or inactive workflow gets the
\* answer of its lookup, it returns without an error: no Execution record is
\* created, no node is executed, bindings and timers stay as they are, and the
\* callback takes no further step.
C11_SkipsSilently ==
  [][ \A r \in DOMAIN runs :
         /\ (runs[r].path = "scheduler" /\ runs[r].pc = "findUnique"
               /\ runs'[r] # runs[r] /\ MissingOrInactive(runs[r].workflowId))
              => /\ runs'[r] = [runs[r] EXCEPT !.pc = "skipped"]
                 /\ runs'[r].executionId = 0 /\ runs'[r].data = None
                 /\ executions' = executions
                 /\ scheduledWorkflows' = scheduledWorkflows
                 /\ tasks' = tasks
                 /\ lastCall' = lastCall
         /\ runs[r].pc = "skipped" => runs'[r] = runs[r] ]_vars

\* a fire for the deleted w1 and a fire for the inactive w1 were both skipped,
\* the binding of w1 is in place and its timer runs
C11_Witness ==
  /\ ~workflows["w1"].exists
  /\ Len(runs) = 2
  /\ \A r \in DOMAIN runs : runs[r].path = "scheduler" /\ runs[r].pc = "skipped"
                              /\ runs[r].workflowId = "w1"
  /\ executions = <<>>
  /\ "w1" \in DOMAIN scheduledWorkflows
  /\ tasks[scheduledWorkflows["w1"].task].running

\* C12: no step of a timer callback lets an error escape executeScheduledWorkflow,
\* whether the run fails or a store call throws; such a step leaves every
\* binding and every timer as it was, and the timer of a callback that caught
\* an error is still bound and running.
C12_FireErrorsCaught ==
  [][ \A r \in DOMAIN runs :
         (runs[r].path = "scheduler" /\ runs'[r] # runs[r])
           => /\ runs'[r].pc # "uncaught"
              /\ scheduledWorkflows' = scheduledWorkflows
              /\ tasks' = tasks
              /\ lastCall' = lastCall
              /\ runs'[r].pc = "caught"
                   => /\ tasks'[runs[r].task].running
                      /\ runs[r].workflowId \in DOMAIN scheduledWorkflows'
                      /\ scheduledWorkflows'[runs[r].workflowId].task = runs[r].task ]_vars

\* the 'failed' update of a first fire threw and was caught, its record is
\* left 'running'; a second fire of the same timer ran to its end
C12_Witness ==
  /\ Len(runs) = 2
  /\ runs[1].path = "scheduler" /\ runs[1].pc = "caught"
  /\ runs[1].executionId \in DOMAIN executions
  /\ executions[runs[1].executionId].status = "running"
  /\ runs[2].path = "scheduler" /\ runs[2].task = runs[1].task
  /\ runs[2].pc = "done"
  /\ Terminal(executions[runs[2].executionId])

\* the step in which the initialize() call r gets its rows and runs its loop
InitializeLoads(r) ==
  /\ r \in DOMAIN runs
  /\ runs[r].path = "initialize" /\ runs[r].pc = "findMany"
  /\ runs'[r].pc # "findMany"

\* the workflows that are active and have a well-formed schedule
ValidScheduled ==
  { id \in WorkflowIds :
       /\ workflows[id].exists /\ workflows[id].isActive
       /\ IsSome(workflows[id].schedule) /\ validate(Get(workflows[id].schedule)) }

\* C13: initialize() does not throw, whatever schedules are stored and in
\* whatever order they are loaded; afterwards every active workflow with a
\* well-formed schedule is bound to it and no other workflow is bound.
C13_InitializeSkipsMalformed ==
  [][ \A r \in DOMAIN runs :
         (InitializeLoads(r) /\ scheduledWorkflows = <<>>)
           => /\ runs'[r].pc = "done"
              /\ lastCall'.error = None
              /\ DOMAIN scheduledWorkflows' = ValidScheduled
              /\ \A id \in ValidScheduled :
                    scheduledWorkflows'[id].schedule = Get(workflows[id].schedule) ]_vars

\* every stored schedule is well-formed
WellFormedStore ==
  \A id \in WorkflowIds :
     (workflows[id].exists /\ IsSome(workflows[id].schedule))
       => validate(Get(workflows[id].schedule))

\* C14: initialize() on a scheduler without bindings and a store with only
\* well-formed schedules returns with exactly the active workflows that have a
\* schedule bound, each to its stored expression and a running timer.
C14_InitializeBindsActive ==
  [][ \A r \in DOMAIN runs :
         (InitializeLoads(r) /\ scheduledWorkflows = <<>> /\ WellFormedStore)
           => /\ runs'[r].pc = "done"
              /\ lastCall' = Call("initialize", "", None)
              /\ DOMAIN scheduledWorkflows' =
                    { id \in WorkflowIds : /\ workflows[id].exists /\ workflows[id].isActive
                                           /\ IsSome(workflows[id].schedule) }
              /\ \A id \in DOMAIN scheduledWorkflows' :
                    /\ scheduledWorkflows'[id].schedule = Get(workflows[id].schedule)
                    /\ tasks'[scheduledWorkflows'[id].task].running
                    /\ tasks'[scheduledWorkflows'[id].task].schedule
                         = Get(workflows[id].schedule)
                    /\ RunningTasks(tasks', id) = {scheduledWorkflows'[id].task} ]_vars

\* initialize() has returned: the active w1 is bound to its stored expression,
\* the inactive w2, which has a schedule too, is not bound
C14_Witness ==
  /\ lastCall = Call("initialize", "", None)
  /\ workflows["w1"].isActive /\ workflows["w1"].schedule = Some(MondayNine)
  /\ ~workflows["w2"].isActive /\ workflows["w2"].schedule = Some(EveryMinute)
  /\ DOMAIN scheduledWorkflows = {"w1"}
  /\ scheduledWorkflows["w1"].schedule = MondayNine
  /\ tasks[scheduledWorkflows["w1"].task].running

\* C15: every Execution record has one of three shapes: 'running' without
\* output, error and completedAt; 'completed' with output and completedAt and
\* without error; 'failed' with error and completedAt and without output.
C15_RecordShape ==
  \A i \in DOMAIN executions :
     LET e == executions[i]
     IN  /\ e.status \in {"running", "completed", "failed"}
         /\ e.status = "running"
              => (e.output = None /\ e.error = None /\ e.completedAt = None)
         /\ e.status = "completed"
              => (IsSome(e.output) /\ IsSome(e.completedAt) /\ e.error = None)
         /\ e.status = "failed"
              => (IsSome(e.error) /\ IsSome(e.completedAt) /\ e.output = None)

\* a run-now record is 'completed' next to a scheduled record that is 'failed'
C15_Witness ==
  \E i, j \in DOMAIN executions :
     /\ executions[i].input = "none" /\ executions[i].status = "completed"
     /\ executions[j].input = "scheduler" /\ executions[j].status = "failed"

\* the workflow holds a node of type slack
HasSlackNode(workflow) ==
  \E k \in DOMAIN workflow.nodes : workflow.nodes[k].type = "slack"

\* C16: under every notifier (not configured, sending, answering success=false,
\* throwing) a call of the slack handler returns a result and does not throw,
\* and a finished run of a graph that holds a slack node is 'completed'.
C16_SlackNeverFailsRun ==
  \A r \in DOMAIN runs :
     /\ runs[r].path = "executeSlack"
          => (runs[r].result.ok /\ "sent" \in DOMAIN runs[r].result.value)
     /\ (runs[r].path = "route" /\ runs[r].pc = "done"
           /\ HasSlackNode(Get(runs[r].workflow)))
          => executions[runs[r].executionId].status = "completed"

\* with a notifier that throws, the slack handler has returned and a run of
\* the graph with the slack node has ended 'completed'
C16_Witness ==
  /\ env.slack = "throws"
  /\ \E r \in DOMAIN runs : runs[r].path = "executeSlack" /\ runs[r].result.ok
  /\ \E r \in DOMAIN runs :
        /\ runs[r].path = "route" /\ runs[r].pc = "done"
        /\ HasSlackNode(Get(runs[r].workflow))
        /\ executions[runs[r].executionId].status = "completed"

\* C17: the result of the slack handler has sent=true exactly when the
\* configured notifier's send succeeded; it has sent=false and an error when
\* the notifier answered success=false or threw; without a notifier it has
\* sent=true and simulated=true.
C17_SentIffSucceeded ==
  \A r \in DOMAIN runs :
     (runs[r].path = "executeSlack" /\ runs[r].result.ok)
       => LET v == runs[r].result.value
          IN  IF ~isConfigured(env)
              THEN v.sent = TRUE /\ "simulated" \in DOMAIN v /\ v.simulated = TRUE
              ELSE /\ v.sent = TRUE <=> env.slack = "ok"
                   /\ env.slack \in {"notok", "throws"}
                        => (v.sent = FALSE /\ "error" \in DOMAIN v)

\* the workflow is stored and active
StoredActive(store, id) == store[id].exists /\ store[id].isActive

\* C18: a step that deactivates a workflow (PUT with isActive false) or deletes
\* it leaves no binding and no running timer for it.
C18_NoBindingAfterDeactivation ==
  [][ \A id \in WorkflowIds :
         (StoredActive(workflows, id) /\ ~StoredActive(workflows', id))
           => /\ id \notin DOMAIN scheduledWorkflows'
              /\ RunningTasks(tasks', id) = {} ]_vars

\* the visits of a walk that were called, directly or not, by visit v
RECURSIVE Descendants(_, _)
Descendants(visits, S) ==
  LET N == S \cup { c \in DOMAIN visits : visits[c].parent \in S }
  IN  IF N = S THEN S ELSE Descendants(visits, N)

Finished(visit) == visit.phase \in {"returned", "threw"}

C20_RunsDoNotInterfere ==
  [][ /\ \A r \in DOMAIN runs :
            (runs[r].executionId = 0 /\ runs'[r].executionId # 0)
              => /\ runs'[r].executionId \in DOMAIN executions' \ DOMAIN executions
                 /\ executions'[runs'[r].executionId].workflowId = runs[r].workflowId
                 /\ \A q \in DOMAIN runs' \ {r} :
                       runs'[q].executionId # runs'[r].executionId
      /\ \A i \in DOMAIN executions :
            executions'[i] # executions[i]
              => /\ \E r \in DOMAIN runs :
                       /\ runs[r].executionId = i
                       /\ runs[r].pc = "update" /\ runs'[r].pc = "done"
                 /\ \A j \in DOMAIN executions \ {i} : executions'[j] = executions[j]
      /\ \A r \in DOMAIN runs :
            (runs[r].pc = "update" /\ runs'[r].pc = "done")
              => /\ Terminal(executions'[runs[r].executionId])
                 /\ executions'[runs[r].executionId].status = Get(runs[r].data).status ]_vars

\* two runs of the same workflow overlap: the one started later has ended with
\* its record terminal while the record of the earlier one is still 'running'
C20_Witness ==
  \E r, q \in DOMAIN runs :
     /\ r < q /\ runs[r].workflowId = runs[q].workflowId
     /\ runs[r].pc = "update"
     /\ executions[runs[r].executionId].status = "running"
     /\ runs[q].pc = "done"
     /\ runs[q].executionId # runs[r].executionId
     /\ Terminal(executions[runs[q].executionId])

\* C21: a scheduler call (scheduleWorkflow, unscheduleWorkflow, shutdown) or a
\* deactivation changes no run and no Execution record, and every Execution
\* record that exists is eventually 'completed' or 'failed', whatever calls
\* and deactivations happen meanwhile.
C21_NoCancellation ==
  /\ [][ (lastCall' # lastCall \/ workflows' # workflows)
           => (runs' = runs /\ executions' = executions) ]_vars
  /\ \A i \in 1..MaxEvents :
        (i \in DOMAIN executions)
          ~> (i \in DOMAIN executions /\ Terminal(executions[i]))

\* a scheduled run has ended and another is still at its update, although
\* their timer was stopped, its binding removed and the workflow deactivated
C21_Witness ==
  \E r, q \in DOMAIN runs :
     /\ runs[r].path = "scheduler" /\ runs[q].path = "scheduler"
     /\ runs[r].pc = "done" /\ Terminal(executions[runs[r].executionId])
     /\ runs[q].pc = "update" /\ executions[runs[q].executionId].status = "running"
     /\ ~tasks[runs[r].task].running /\ ~tasks[runs[q].task].running
     /\ runs[q].workflowId \notin DOMAIN scheduledWorkflows
     /\ ~workflows[runs[q].workflowId].isActive

\* an edge cycle can be reached from the trigger node of the workflow
CycleReachable(workflow) ==
  /\ IsSome(findTrigger(workflow.nodes))
  /\ LET graph == buildExecutionGraph(workflow.nodes, workflow.edges)
         start == Get(findTrigger(workflow.nodes)).nodeId
     IN  \E n \in {start} \cup ReachableFrom(graph, start) : n \in ReachableFrom(graph, n)

\* C22: a run of a graph in which an edge cycle is reachable from the trigger
\* node never has its Execution record 'completed'.
C22_CycleNeverCompletes ==
  \A i \in DOMAIN executions :
     CycleReachable(SnapshotOf(i)) => executions[i].status # "completed"

\* C23: no run, scheduled or run-now, ever ends with an error that nothing
\* catches, whichever store calls fail.
C23_NoUnhandledError ==
  \A r \in DOMAIN runs : runs[r].pc # "uncaught"

\* C24: for the same node and the same notifier the switch of the scheduler and
\* the switch of the run-now route both return or both throw, and the results
\* they return have the same keys.
C24_SameEngineOnBothPaths ==
  \A r, q \in DOMAIN runs :
     (runs[r].path = "dispatch" /\ runs[q].path = "dispatch"
       /\ runs[r].node = runs[q].node /\ runs[r].route # runs[q].route)
       => /\ runs[r].result.ok = runs[q].result.ok
          /\ runs[r].result.ok
               => DOMAIN runs[r].result.value = DOMAIN runs[q].result.value

\* the node types the switch of a path has a case for
HandledTypes(route) ==
  {"trigger", "action", "condition", "delay", "email", "database", "webhook"}
    \cup (IF route THEN {"slack"} ELSE {})

\* C27: for a node whose type has no case the switch returns exactly
\* {executed: true, type} and does not throw.
C27_UnknownTypeIsPermissive ==
  \A r \in DOMAIN runs :
     (runs[r].path = "dispatch" /\ runs[r].node.type \notin HandledTypes(runs[r].route))
       => runs[r].result = Ok([executed |-> TRUE, type |-> runs[r].node.type])

\* both switches have returned for a node of type 'spreadsheet'
C27_Witness ==
  \E r, q \in DOMAIN runs :
     /\ runs[r].path = "dispatch" /\ runs[q].path = "dispatch"
     /\ runs[r].node.type = "spreadsheet" /\ runs[q].node.type = "spreadsheet"
     /\ runs[r].route /\ ~runs[q].route
     /\ runs[r].result.ok /\ runs[q].result.ok

\* C28: a delay node reports as duration its configured delayMs, whatever
\* non-negative value is configured, and 2000 only without a configured delayMs.
C28_DelayDuration ==
  \A r \in DOMAIN runs :
     (runs[r].path = "dispatch" /\ runs[r].node.type = "delay")
       => /\ runs[r].result.ok
          /\ runs[r].result.value.delayed = TRUE
          /\ runs[r].result.value.duration =
               IF IsSome(runs[r].node.config.delayMs)
               THEN Get(runs[r].node.config.delayMs) ELSE 2000

InputOf(path) == IF path = "scheduler" THEN "scheduler" ELSE "none"

\* C25: a timer callback or run-now request whose lookup finds the workflow
\* stored and active goes on to create its record, and has executed no node
\* by then; the step in which its create resolves adds exactly one record,
\* 'running', with its workflowId and its path's input, and only then is the
\* graph run; no other step adds a record.
C25_OneRecordBeforeNodes ==
  [][ /\ \A r \in DOMAIN runs :
            /\ (runs[r].pc = "findUnique" /\ runs'[r] # runs[r]
                  /\ StoredActive(workflows, runs[r].workflowId))
                 => /\ runs'[r].pc = "create"
                    /\ runs'[r].data = None /\ runs'[r].executionId = 0
                    /\ executions' = executions
            /\ (runs[r].pc = "create" /\ runs'[r] # runs[r])
                 => /\ executions' =
                         Append(executions,
                                [workflowId |-> runs[r].workflowId, status |-> "running",
                                 input |-> InputOf(runs[r].path), output |-> None,
                                 error |-> None, completedAt |-> None])
                    /\ runs'[r].executionId = Len(executions')
                    /\ runs[r].data = None /\ IsSome(runs'[r].data)
      /\ Len(executions') # Len(executions)
           => \E r \in DOMAIN runs : runs[r].pc = "create" /\ runs'[r].pc = "update" ]_vars

\* a fire and a run-now request have each created their one record
C25_Witness ==
  /\ Len(runs) = 2 /\ Len(executions) = 2
  /\ \E r, q \in DOMAIN runs :
        /\ runs[r].path = "scheduler" /\ runs[r].executionId # 0
        /\ executions[runs[r].executionId].input = "scheduler"
        /\ executions[runs[r].executionId].workflowId = runs[r].workflowId
        /\ runs[q].path = "route" /\ runs[q].executionId # 0
        /\ executions[runs[q].executionId].input = "none"
        /\ executions[runs[q].executionId].workflowId = runs[q].workflowId

\* C26: a walk starts at the trigger node that no trigger node precedes in the
\* stored node order; every other node it visits, trigger nodes included, is
\* visited as a child and can be reached from that first node along the edges.
C26_FirstTriggerIsEntry ==
  \A r \in DOMAIN runs :
     LET nodes == workflows[runs[r].workflowId].nodes
         visits == runs[r].visits
     IN  /\ visits[1].parent = 0
         /\ visits[1].node.type = "trigger"
         /\ \E i \in DOMAIN nodes :
               /\ nodes[i] = visits[1].node
               /\ \A j \in 1..(i - 1) : nodes[j].type # "trigger"
         /\ \A v \in DOMAIN visits \ {1} :
               /\ visits[v].parent # 0
               /\ visits[v].node.nodeId
                    \in ReachableFrom(runs[r].graph, visits[1].node.nodeId)

\* the walk of the graph whose node list is [X1, T1, A1, T2], with two trigger
\* nodes, has started at T1 and returned
C26_Witness ==
  \E r \in DOMAIN runs :
     /\ TriggerCount(workflows[runs[r].workflowId]) = 2
     /\ workflows[runs[r].workflowId].nodes[1].type # "trigger"
     /\ runs[r].visits[1].node.nodeId = "T1"
     /\ runs[r].visits[1].phase = "returned"

\* C30: a timer is running exactly when the binding map holds it under its
\* workflowId; every binding is stored under its own workflowId and holds a
\* running timer of that workflow with the binding's expression.
C30_RunningIffBound ==
  /\ \A t \in DOMAIN tasks :
        tasks[t].running
          <=> /\ tasks[t].workflowId \in DOMAIN scheduledWorkflows
              /\ scheduledWorkflows[tasks[t].workflowId].task = t
  /\ \A id \in DOMAIN scheduledWorkflows :
        LET b == scheduledWorkflows[id]
        IN  /\ b.workflowId = id /\ b.id = id
            /\ b.task \in DOMAIN tasks
            /\ tasks[b.task].running
            /\ tasks[b.task].workflowId = id
            /\ tasks[b.task].schedule = b.schedule

\* initialize() has run, a timer it started was stopped since, another one
\* is bound and running, and the latest call failed
C30_Witness ==
  /\ \E r \in DOMAIN runs : runs[r].path = "initialize" /\ runs[r].pc # "findMany"
  /\ \E t \in DOMAIN tasks : ~tasks[t].running
  /\ \E t \in DOMAIN tasks : tasks[t].running
  /\ IsSome(lastCall.error)

\* C31: when the run-now handler gets the answer of its lookup for a workflow
\* that is missing or inactive, it answers 404 (missing) or 400 (inactive):
\* no Execution record is created, no node is executed, and the request takes
\* no further step.
C31_RunNowRejected ==
  [][ \A r \in DOMAIN runs :
         /\ (runs[r].path = "route" /\ runs[r].pc = "findUnique"
               /\ runs'[r] # runs[r] /\ MissingOrInactive(runs[r].workflowId))
              => /\ runs'[r] = [runs[r] EXCEPT
                                 !.pc = "rejected",
                                 !.response = IF workflows[runs[r].workflowId].exists
                                              THEN 400 ELSE 404]
                 /\ runs'[r].executionId = 0 /\ runs'[r].data = None
                 /\ executions' = executions
         /\ (runs[r].path = "route" /\ runs[r].pc = "rejected")
              => runs'[r] = runs[r] ]_vars

\* one request for a deleted workflow was answered 404 and one for an
\* inactive workflow 400, and no Execution record exists
C31_Witness ==
  /\ \E r \in DOMAIN runs : runs[r].path = "route" /\ runs[r].pc = "rejected"
                               /\ runs[r].response = 404
  /\ \E r \in DOMAIN runs : runs[r].path = "route" /\ runs[r].pc = "rejected"
                               /\ runs[r].response = 400
  /\ executions = <<>>

\* C32: a run keeps the workflow it loaded: no step changes the snapshot or
\* the graph built from it, a request that writes the store changes no run
\* and no Execution record, the update a run issues is the outcome of running
\* its snapshot, and a walk's graph and visited nodes come from its snapshot.
C32_RunUsesSnapshot ==
  /\ [][ /\ \A r \in DOMAIN runs :
              (runs[r].path \in {"scheduler", "route", "walk"})
                => /\ ((runs[r].path = "walk" \/ IsSome(runs[r].workflow))
                         => (runs'[r].workflow = runs[r].workflow))
                   /\ ((runs[r].path = "walk") => (runs'[r].graph = runs[r].graph))
                   /\ ((workflows' # workflows) => (runs'[r] = runs[r]))
          /\ ((workflows' # workflows) => (executions' = executions)) ]_vars
  /\ [](\A r \in DOMAIN runs :
          /\ (runs[r].path = "scheduler" /\ IsSome(runs[r].data))
               => \E rand \in RandPool :
                     runs[r].data = Some(runWorkflow(Get(runs[r].workflow), env, rand))
          /\ (runs[r].path = "route" /\ IsSome(runs[r].data))
               => \E rand \in RandPool :
                     runs[r].data = Some(executeWorkflow(Get(runs[r].workflow), env, rand))
          /\ (runs[r].path \in {"scheduler", "route"} /\ runs[r].pc = "done")
               => executions[runs[r].executionId] =
                    applyUpdate(newExecution(runs[r].workflowId, InputOf(runs[r].path)),
                                Get(runs[r].data))
          /\ (runs[r].path = "walk")
               => /\ runs[r].graph = buildExecutionGraph(runs[r].workflow.nodes,
                                                         runs[r].workflow.edges)
                  /\ \A v \in DOMAIN runs[r].visits :
                        runs[r].visits[v].node \in Range(runs[r].workflow.nodes))

\* a scheduled run has finished with the outcome of a snapshot that is no
\* longer what the store holds for its workflow
C32_Witness ==
  \E r \in DOMAIN runs :
     /\ runs[r].path = "scheduler" /\ runs[r].pc = "done"
     /\ workflows[runs[r].workflowId].nodes # Get(runs[r].workflow).nodes
     /\ \A rand \in RandPool :
           runs[r].data # Some(runWorkflow(workflows[runs[r].workflowId], env, rand))
     /\ executions[runs[r].executionId].status = "completed"

\* the Graph Model invariants: edges join nodes of the workflow, node ids
\* are unique, a trigger exists
GraphModel(workflow) ==
  LET nodes == workflow.nodes
      nodeIds == { nodes[k].nodeId : k \in DOMAIN nodes }
  IN  /\ \A e \in DOMAIN workflow.edges :
            workflow.edges[e].sourceId \in nodeIds /\ workflow.edges[e].targetId \in nodeIds
      /\ \A j, k \in DOMAIN nodes : nodes[j].nodeId = nodes[k].nodeId => j = k
      /\ \E k \in DOMAIN nodes : nodes[k].type = "trigger"

\* C33: every stored workflow satisfies the Graph Model invariants.
C33_StoredGraphsValid ==
  \A id \in WorkflowIds : workflows[id].exists => GraphModel(workflows[id])

\* the targets of the edges of source id, in declaration order
TargetsInOrder(edges, id) ==
  LET from == SelectSeq(edges, LAMBDA e : e.sourceId = id)
  IN  [k \in 1..Len(from) |-> from[k].targetId]

\* the child ids of a visit that the lookup of executeNode resolves
ResolvedChildren(run, v) ==
  LET id == run.visits[v].node.nodeId
      childNodes == IF id \in DOMAIN run.graph THEN run.graph[id] ELSE <<>>
  IN  { k \in 1..Len(childNodes) : IsSome(getNodeById(childNodes[k], lookupNodes(run.graph))) }

\* C34: every call of buildExecutionGraph returns a graph whose keys are the
\* node ids, each with the targets of its own edges in order, whether or not a
\* target is a node id, and with nothing for an edge whose source is no node
\* id; in a walk no call is rejected, and a visit that has returned called
\* executeNode once for each child id that its lookup resolved and never for
\* another.
C34_GraphAndSkippedChildren ==
  \A r \in DOMAIN runs :
     /\ runs[r].path = "build"
          => /\ runs[r].pc = "returned"
             /\ runs[r].result.ok
             /\ DOMAIN runs[r].result.value
                  = { runs[r].nodes[i].nodeId : i \in 1..Len(runs[r].nodes) }
             /\ \A id \in DOMAIN runs[r].result.value :
                   runs[r].result.value[id] = TargetsInOrder(runs[r].edges, id)
     /\ runs[r].path = "walk"
          => \A v \in DOMAIN runs[r].visits :
                /\ runs[r].visits[v].phase # "threw"
                /\ runs[r].visits[v].phase = "returned"
                     => Cardinality({ c \in DOMAIN runs[r].visits : runs[r].visits[c].parent = v })
                          = Cardinality(ResolvedChildren(runs[r], v))

\* C35: a timer callback whose lookup is answered while its workflowId has no
\* binding (unscheduleWorkflow(id) or shutdown() has returned and the workflow
\* was not scheduled again) does not go on to create an Execution record.
C35_NoRecordWithoutBinding ==
  [][ \A r \in DOMAIN runs :
         (runs[r].path = "scheduler" /\ runs[r].pc = "findUnique"
            /\ runs[r].workflowId \notin DOMAIN scheduledWorkflows)
           => runs'[r].pc # "create" ]_vars

\* C36: the step in which a timer callback or a run-now request creates its
\* Execution record is taken only while the workflow is stored and active.
C36_ActiveWhenRecordCreated ==
  [][ \A r \in DOMAIN runs :
         (runs[r].path \in {"scheduler", "route"} /\ runs[r].pc = "create"
            /\ runs'[r].pc # "create" /\ Len(executions') > Len(executions))
           => ~MissingOrInactive(runs[r].workflowId) ]_vars

====
